---- MODULE Spec2Model ----
(***************************************************************************)
(* A model of Sirene, a desktop Mermaid diagram editor:                    *)
(*   - the render scheduler of components/Preview.tsx,                     *)
(*   - the tab store of hooks/useTabs.ts over lib/store.ts,                *)
(*   - the recent-files list of lib/store.ts,                              *)
(*   - the file tree and its undo stack of hooks/useFileTree.ts,           *)
(*   - the markup preprocessor of lib/preprocessor.ts.                     *)
(* Text is modelled as a sequence of one-character strings.                *)
(***************************************************************************)
EXTENDS Integers, Sequences, FiniteSets, TLC

VARIABLES
  \* components/Preview.tsx
  code,         \* the markup prop
  theme,        \* the theme prop
  timerArmed,   \* the 300 ms debounce timer is pending
  renderIdRef,  \* renderIdRef.current, the generation counter
  svgHtml,      \* the stored graphic
  errorMsg,     \* the stored error
  appError,     \* what onError last reported
  inflight,     \* renderer calls that have not settled yet
  domArtifacts, \* generations whose renderer elements are in the document
  renderLog,    \* per generation: how its render ended and when
  mounted       \* the Preview component is mounted

renderVars == <<code, theme, timerArmed, renderIdRef, svgHtml, errorMsg,
                appError, inflight, domArtifacts, renderLog>>

VARIABLES
  \* lib/store.ts: the two localStorage items
  lsTabs,       \* "sirene:tabs"
  lsRecent,     \* "sirene:recentFiles"
  recentCalls,  \* the addRecentFile calls made so far, and the last path added
  \* hooks/useTabs.ts
  tabs,         \* the open documents, in order
  activeId,     \* the id of the active document
  nextId,       \* the module's id counter
  session,      \* the process run, which stands for Date.now() in ids
  saveTimer,    \* the 500 ms auto-save timer is pending
  tabOps,       \* open and save calls suspended at an await, in call order
  tabFault,     \* a state updater threw
  disk,         \* the text of the files the dialogs can name
  tabTrace      \* the last operation of the tab store, the number of
                \* documents it found and the toast it showed

storeVars == <<lsTabs, lsRecent>>
tabVars == <<tabs, activeId, nextId, session, saveTimer, tabOps, tabFault,
             disk, tabTrace>>

VARIABLES
  \* hooks/useFileTree.ts
  platform,     \* which characters the filesystem takes as separators
  fs,           \* the filesystem: the node at each existing location
  rootPath,     \* the root directory shown, NullPath when none
  tree,         \* the cached listing
  expandedDirs, \* the paths of the expanded directories
  loadingRef,   \* loadingRef.current, the single-flight guard of loadRoot
  loadCalls,    \* loadRoot calls suspended at their listing
  treeOps,      \* refresh, toggleDir and createFile calls suspended at an await
  undoStack,    \* undoStackRef.current
  treeToast,    \* the last toast of the file tree
  treeTrace     \* the last operation of the file tree and what it found

treeVars == <<platform, fs, rootPath, tree, expandedDirs, loadingRef,
              loadCalls, treeOps, undoStack, treeToast, treeTrace>>

VARIABLES
  \* lib/preprocessor.ts
  ppSource,     \* a markup and the family of inputs it is drawn from
  ppOnce,       \* preprocessMermaid(markup)
  ppTwice,      \* preprocessMermaid(preprocessMermaid(markup))
  ppStage       \* how many passes have run

preVars == <<ppSource, ppOnce, ppTwice, ppStage>>

VARIABLES
  \* components/Preview.tsx: the viewport
  zoom,         \* the zoom state, a fraction
  zoomShown,    \* the scale the document displays: it reaches zoom when the
                \* 0.1 s transition of the transform ends
  pan,          \* the pan state
  isPanning,    \* a pan gesture is under way
  panStartRef,  \* panStartRef.current
  panOffsetRef, \* panOffsetRef.current
  viewTrace     \* the last operation of the viewport and the fits made

viewVars == <<zoom, zoomShown, pan, isPanning, panStartRef, panOffsetRef,
              viewTrace>>

VARIABLES
  \* lib/store.ts: the preferences item and the storage underneath
  lsPrefs,       \* "sirene:preferences"
  setItemThrows  \* localStorage.setItem throws: storage full or unavailable

storageVars == <<lsPrefs, setItemThrows>>

vars == <<renderVars, mounted, storeVars, storageVars, recentCalls, tabVars,
          treeVars, preVars, viewVars>>

\* what the operations of one part leave alone
outsidePreview == <<storeVars, storageVars, recentCalls, tabVars, treeVars,
                    preVars, viewVars>>
outsideRender == <<outsidePreview, mounted>>
outsideTabs == <<renderVars, mounted, storageVars, recentCalls, treeVars, preVars,
                 viewVars>>
outsideRecent == <<renderVars, mounted, storageVars, lsTabs, tabVars, treeVars,
                   preVars, viewVars>>
outsideTree == <<renderVars, mounted, storeVars, storageVars, recentCalls, tabVars,
                 preVars, viewVars>>
outsidePre == <<renderVars, mounted, storeVars, storageVars, recentCalls, tabVars,
                treeVars, viewVars>>
outsideView == <<renderVars, mounted, storeVars, storageVars, recentCalls, tabVars,
                 treeVars, preVars>>
outsideStorage == <<renderVars, mounted, storeVars, recentCalls, tabVars, treeVars,
                    preVars, viewVars>>

(***************************************************************************)
(* Text helpers                                                            *)
(***************************************************************************)

Whitespace == {" ", "\t", "\n", "\r"}

Min(a, b) == IF a <= b THEN a ELSE b
Max(a, b) == IF a >= b THEN a ELSE b

\* s.slice(a - 1, b): the characters at positions a..b that exist
Slice(s, a, b) ==
  LET lo == Max(a, 1)
      hi == Min(b, Len(s))
  IN IF lo > hi THEN <<>> ELSE [k \in 1..(hi - lo + 1) |-> s[lo + k - 1]]

TrimNothing(s) == s

RECURSIVE TrimStart(_)
TrimStart(s) ==
  IF s # <<>> /\ Head(s) \in Whitespace THEN TrimStart(Tail(s)) ELSE s

RECURSIVE TrimEnd(_)
TrimEnd(s) ==
  IF s # <<>> /\ s[Len(s)] \in Whitespace
  THEN TrimEnd(Slice(s, 1, Len(s) - 1))
  ELSE s

Trim(s) == TrimEnd(TrimStart(s))

\* index of the first x in s at or after position i, 0 when there is none
RECURSIVE IndexFrom(_, _, _)
IndexFrom(s, x, i) ==
  IF i > Len(s) THEN 0
  ELSE IF s[i] = x THEN i
  ELSE IndexFrom(s, x, i + 1)

\* msg.replace(/<[^>]*>/g, "")
RECURSIVE StripTagsFrom(_, _)
StripTagsFrom(s, i) ==
  IF i > Len(s) THEN <<>>
  ELSE IF s[i] = "<" /\ IndexFrom(s, ">", i + 1) # 0
       THEN StripTagsFrom(s, IndexFrom(s, ">", i + 1) + 1)
       ELSE <<s[i]>> \o StripTagsFrom(s, i + 1)

StripTags(s) == StripTagsFrom(s, 1)

(***************************************************************************)
(* lib/preprocessor.ts                                                     *)
(***************************************************************************)

UpperCase == <<"A","B","C","D","E","F","G","H","I","J","K","L","M",
               "N","O","P","Q","R","S","T","U","V","W","X","Y","Z">>
LowerCase == <<"a","b","c","d","e","f","g","h","i","j","k","l","m",
               "n","o","p","q","r","s","t","u","v","w","x","y","z">>
Digits == {"0","1","2","3","4","5","6","7","8","9"}

Range(f) == {f[i] : i \in DOMAIN f}

\* [A-Za-z_] and \w
IdStartChars == Range(UpperCase) \cup Range(LowerCase) \cup {"_"}
WordChars == IdStartChars \cup Digits

ToLowerChar(c) ==
  IF c \in Range(UpperCase)
  THEN LowerCase[CHOOSE i \in DOMAIN UpperCase : UpperCase[i] = c]
  ELSE c

ToLower(s) == [i \in DOMAIN s |-> ToLowerChar(s[i])]

StartsWith(s, p) == Len(s) >= Len(p) /\ Slice(s, 1, Len(p)) = p

EndsWith(s, p) ==
  Len(s) >= Len(p) /\ Slice(s, Len(s) - Len(p) + 1, Len(s)) = p

\* source.split("\n")
RECURSIVE SplitLines(_)
SplitLines(s) ==
  LET n == IndexFrom(s, "\n", 1)
  IN IF n = 0 THEN <<s>>
     ELSE <<Slice(s, 1, n - 1)>> \o SplitLines(Slice(s, n + 1, Len(s)))

\* lines.join("\n")
RECURSIVE JoinLines(_)
JoinLines(ls) ==
  IF Len(ls) = 0 THEN <<>>
  ELSE IF Len(ls) = 1 THEN ls[1]
  ELSE ls[1] \o <<"\n">> \o JoinLines(Tail(ls))

\* NEEDS_QUOTING = /[()'"&#;]/
NEEDS_QUOTING == {"(", ")", "'", "\"", "&", "#", ";"}

NeedsQuoting(label) == \E i \in DOMAIN label : label[i] \in NEEDS_QUOTING

\* FLOWCHART_TYPES = /^\s*(graph|flowchart)\b/i
FlowKeywords == {<<"g","r","a","p","h">>,
                 <<"f","l","o","w","c","h","a","r","t">>}

FLOWCHART_TYPES(s) ==
  LET t == TrimStart(s)
  IN \E k \in FlowKeywords :
       /\ StartsWith(ToLower(t), k)
       /\ (Len(t) = Len(k) \/ t[Len(k) + 1] \notin WordChars)

\* SKIP_LINE: comment lines, blank lines and structural keywords
SkipKeywords ==
  {<<"s","u","b","g","r","a","p","h">>, <<"e","n","d">>,
   <<"d","i","r","e","c","t","i","o","n">>, <<"c","l","i","c","k">>,
   <<"c","l","a","s","s"," ">>, <<"c","l","a","s","s","D","e","f"," ">>,
   <<"s","t","y","l","e"," ">>,
   <<"l","i","n","k","S","t","y","l","e"," ">>}

LineTerminators == {"\n", "\r"}

SKIP_LINE(line) ==
  LET t == TrimStart(line)
  IN \/ /\ StartsWith(t, <<"%", "%">>)
        /\ \A i \in DOMAIN t : t[i] \notin LineTerminators
     \/ t = <<>>
     \/ \E k \in SkipKeywords : StartsWith(t, k)

\* isFlowchart: the first line that is neither blank nor a comment decides
RECURSIVE isFlowchart(_)
isFlowchart(lines) ==
  IF lines = <<>> THEN FALSE
  ELSE LET trimmed == Trim(Head(lines))
       IN IF trimmed = <<>> \/ StartsWith(trimmed, <<"%", "%">>)
          THEN isFlowchart(Tail(lines))
          ELSE FLOWCHART_TYPES(trimmed)

\* The seven shape patterns of preprocessLine, in the order it applies them.
\* kind "compound": id OO label CC, the label ends at the first CC.
\* kind "simple":   id O(?!O) label C(?!C), the label ends at the first C.
\* kind "flag":     id > label ], the label ends at the first ].
Shapes ==
  << [kind |-> "compound", o |-> "[", c |-> "]"],
     [kind |-> "compound", o |-> "(", c |-> ")"],
     [kind |-> "compound", o |-> "{", c |-> "}"],
     [kind |-> "simple",   o |-> "[", c |-> "]"],
     [kind |-> "simple",   o |-> "(", c |-> ")"],
     [kind |-> "simple",   o |-> "{", c |-> "}"],
     [kind |-> "flag",     o |-> ">", c |-> "]"] >>

ShapeOpen(sh) == IF sh.kind = "compound" THEN <<sh.o, sh.o>> ELSE <<sh.o>>
ShapeClose(sh) == IF sh.kind = "compound" THEN <<sh.c, sh.c>> ELSE <<sh.c>>

CharAt(s, i) == IF i >= 1 /\ i <= Len(s) THEN s[i] ELSE "EOF"

\* end of the maximal run of \w starting at i (s[i] is a word character)
RECURSIVE WordEnd(_, _)
WordEnd(s, i) ==
  IF CharAt(s, i + 1) \in WordChars THEN WordEnd(s, i + 1) ELSE i

\* first position p >= i with s[p] = c and s[p+1] = c, 0 when there is none
RECURSIVE PairFrom(_, _, _)
PairFrom(s, c, i) ==
  IF i >= Len(s) THEN 0
  ELSE IF s[i] = c /\ s[i + 1] = c THEN i
  ELSE PairFrom(s, c, i + 1)

NoMatch == [ok |-> FALSE, idEnd |-> 0, labStart |-> 0, labEnd |-> 0, end |-> 0]

\* The match of a shape pattern that starts exactly at position i.
MatchAt(s, i, sh) ==
  IF CharAt(s, i) \notin IdStartChars THEN NoMatch
  ELSE
    LET j == WordEnd(s, i)
        open == ShapeOpen(sh)
        ls == j + Len(open) + 1
    IN IF Slice(s, j + 1, j + Len(open)) # open THEN NoMatch
       ELSE IF sh.kind = "compound"
       THEN LET p == PairFrom(s, sh.c, ls)
            IN IF p = 0 THEN NoMatch
               ELSE [ok |-> TRUE, idEnd |-> j, labStart |-> ls,
                     labEnd |-> p - 1, end |-> p + 1]
       ELSE LET p == IndexFrom(s, sh.c, ls)
            IN IF p = 0 THEN NoMatch
               ELSE IF sh.kind = "simple"
                       /\ (CharAt(s, ls) = sh.o \/ CharAt(s, p + 1) = sh.c)
               THEN NoMatch
               ELSE [ok |-> TRUE, idEnd |-> j, labStart |-> ls,
                     labEnd |-> p - 1, end |-> p]

\* label.replace(/"/g, "&quot;")
RECURSIVE EscapeQuotes(_)
EscapeQuotes(label) ==
  IF label = <<>> THEN <<>>
  ELSE (IF Head(label) = "\"" THEN <<"&","q","u","o","t",";">>
        ELSE <<Head(label)>>) \o EscapeQuotes(Tail(label))

AlreadyQuoted(label) ==
  StartsWith(label, <<"\"">>) /\ EndsWith(label, <<"\"">>)

\* the replacement callback of autoQuoteShape
QuoteLabel(label) ==
  IF AlreadyQuoted(label) THEN label
  ELSE IF ~NeedsQuoting(label) THEN label
  ELSE <<"\"">> \o EscapeQuotes(label) \o <<"\"">>

\* line.replace(pattern, callback) with a global pattern: leftmost matches,
\* left to right, the search resuming after each match
RECURSIVE ReplaceFrom(_, _, _)
ReplaceFrom(s, i, sh) ==
  IF i > Len(s) THEN <<>>
  ELSE LET m == MatchAt(s, i, sh)
       IN IF m.ok
          THEN Slice(s, i, m.idEnd) \o ShapeOpen(sh)
                 \o QuoteLabel(Slice(s, m.labStart, m.labEnd))
                 \o ShapeClose(sh) \o ReplaceFrom(s, m.end + 1, sh)
          ELSE <<s[i]>> \o ReplaceFrom(s, i + 1, sh)

autoQuoteShape(line, sh) == ReplaceFrom(line, 1, sh)

RECURSIVE ApplyShapes(_, _)
ApplyShapes(line, k) ==
  IF k > Len(Shapes) THEN line
  ELSE ApplyShapes(autoQuoteShape(line, Shapes[k]), k + 1)

preprocessLine(line) ==
  IF SKIP_LINE(line) THEN line ELSE ApplyShapes(line, 1)

\* preprocessMermaid: lines 27-34
preprocessMermaidDropsBlank(source) ==
  LET Kept(l) == l # <<>>
      lines == SelectSeq(SplitLines(source), Kept)
  IN IF ~isFlowchart(lines) THEN source
     ELSE JoinLines([i \in DOMAIN lines |-> preprocessLine(lines[i])])
preprocessMermaidAnyDiagram(source) ==
  JoinLines([i \in DOMAIN SplitLines(source) |-> preprocessLine(SplitLines(source)[i])])
preprocessMermaid(source) ==
  LET lines == SplitLines(source)
  IN IF ~isFlowchart(lines) THEN source
     ELSE JoinLines([i \in DOMAIN lines |-> preprocessLine(lines[i])])

(***************************************************************************)
(* components/Preview.tsx: the render scheduler                            *)
(***************************************************************************)

\* the number of render dispatches explored
MaxRenders == 3

Themes == {"light", "dark"}

\* markup the editor may hold: empty, blank, a flow diagram whose label needs
\* quoting, and a non-flow diagram with trailing whitespace
RenderMarkups ==
  { <<>>,
    <<" ">>,
    <<"g","r","a","p","h","\n","A","(",";",")">>,
    <<"p","i","e"," ">> }

\* what the renderer may throw: Error objects (one whose message carries
\* markup) and a value that is no Error
RenderThrows ==
  { [isError |-> TRUE,  message |-> <<"<","b",">","b","a","d","<","/","b",">">>],
    [isError |-> TRUE,  message |-> <<"P","a","r","s","e"," ">>],
    [isError |-> FALSE, message |-> <<>>] }

FailedToRender ==
  <<"F","a","i","l","e","d"," ","t","o"," ","r","e","n","d","e","r"," ",
    "d","i","a","g","r","a","m">>

NoSvg == <<>>
NullError == [null |-> TRUE, text |-> <<>>]
ErrorOf(text) == [null |-> FALSE, text |-> text]

\* the svg the renderer returns for a call: it carries the element id
\* mermaid-<renderId>, the preprocessed markup and the theme
SvgOf(r) == <<r.id, r.src, r.theme>>

\* err instanceof Error ? err.message : "Failed to render diagram", then the
\* tags are stripped and the message trimmed
CleanMessage(err) ==
  Trim(StripTags(IF err.isError THEN err.message ELSE FailedToRender))

\* renderId === renderIdRef.current
IsCurrentAlways(renderId) == TRUE
IsCurrent(renderId) == renderId = renderIdRef

LogEntry(kind, at, svg, err) == [kind |-> kind, at |-> at, svg |-> svg, err |-> err]

Settled == Cardinality({i \in DOMAIN renderLog : renderLog[i].kind # "pending"})

RenderInit ==
  /\ code \in RenderMarkups
  /\ theme \in Themes
  /\ timerArmed = TRUE
  /\ renderIdRef = 0
  /\ svgHtml = NoSvg
  /\ errorMsg = NullError
  /\ appError = NullError
  /\ inflight = {}
  /\ domArtifacts = {}
  /\ renderLog = <<>>
  /\ mounted = TRUE

\* the effect of lines 128-133 reruns on a change of code: the pending timer
\* is cleared and a new one started
ChangeCodeKeepsTimer(c) ==
  /\ mounted
  /\ c # code
  /\ code' = c
  /\ UNCHANGED <<theme, timerArmed, renderIdRef, svgHtml, errorMsg, appError,
                 inflight, domArtifacts, renderLog>>
  /\ UNCHANGED outsideRender
ChangeCode(c) ==
  /\ mounted
  /\ c # code
  /\ code' = c
  /\ timerArmed' = TRUE
  /\ UNCHANGED <<theme, renderIdRef, svgHtml, errorMsg, appError, inflight,
                 domArtifacts, renderLog>>
  /\ UNCHANGED outsideRender

ChangeTheme(t) ==
  /\ mounted
  /\ t # theme
  /\ theme' = t
  /\ timerArmed' = TRUE
  /\ UNCHANGED <<code, renderIdRef, svgHtml, errorMsg, appError, inflight,
                 domArtifacts, renderLog>>
  /\ UNCHANGED outsideRender

\* preprocessMermaid(trimmed), line 99, of every markup the editor may hold
Preprocessed ==
  [trimmed \in {Trim(c) : c \in RenderMarkups} |-> preprocessMermaid(trimmed)]

\* the timer fires: renderDiagram(code, theme) up to its await
TimerFires ==
  /\ timerArmed
  /\ renderIdRef < MaxRenders
  /\ timerArmed' = FALSE
  /\ LET renderId == renderIdRef + 1
         trimmed == Trim(code)
     IN /\ renderIdRef' = renderId
        /\ IF trimmed = <<>>
           THEN /\ svgHtml' = NoSvg
                /\ errorMsg' = NullError
                /\ appError' = NullError
                /\ domArtifacts' = {}
                /\ renderLog' = Append(renderLog,
                                  LogEntry("empty", Settled + 1, NoSvg, NullError))
                /\ UNCHANGED inflight
           ELSE /\ inflight' = inflight \cup
                     {[id |-> renderId, src |-> Preprocessed[trimmed],
                       theme |-> theme]}
                /\ domArtifacts' = domArtifacts \cup {renderId}
                /\ renderLog' = Append(renderLog,
                                  LogEntry("pending", 0, NoSvg, NullError))
                /\ UNCHANGED <<svgHtml, errorMsg, appError>>
  /\ UNCHANGED <<code, theme>>
  /\ UNCHANGED outsideRender

\* mermaid.render resolves: lines 100-109
RenderResolves(r) ==
  /\ r \in inflight
  /\ inflight' = inflight \ {r}
  /\ domArtifacts' = {}
  /\ renderLog' = [renderLog EXCEPT ![r.id] =
                     LogEntry("ok", Settled + 1, SvgOf(r), NullError)]
  /\ IF IsCurrent(r.id)
     THEN /\ svgHtml' = SvgOf(r)
          /\ errorMsg' = NullError
          /\ appError' = NullError
     ELSE UNCHANGED <<svgHtml, errorMsg, appError>>
  /\ UNCHANGED <<code, theme, timerArmed, renderIdRef>>
  /\ UNCHANGED outsideRender

\* mermaid.render rejects: lines 110-122
RenderRejects(r, err) ==
  /\ r \in inflight
  /\ inflight' = inflight \ {r}
  /\ domArtifacts' = {}
  /\ renderLog' = [renderLog EXCEPT ![r.id] =
                     LogEntry("fail", Settled + 1, NoSvg, ErrorOf(CleanMessage(err)))]
  /\ IF IsCurrent(r.id)
     THEN /\ errorMsg' = ErrorOf(CleanMessage(err))
          /\ appError' = ErrorOf(CleanMessage(err))
          /\ UNCHANGED svgHtml
     ELSE UNCHANGED <<svgHtml, errorMsg, appError>>
  /\ UNCHANGED <<code, theme, timerArmed, renderIdRef>>
  /\ UNCHANGED outsideRender

\* the component unmounts: the cleanup of the effect clears the pending timer,
\* line 132
Unmount ==
  /\ mounted
  /\ mounted' = FALSE
  /\ timerArmed' = FALSE
  /\ UNCHANGED <<code, theme, renderIdRef, svgHtml, errorMsg, appError, inflight,
                 domArtifacts, renderLog>>
  /\ UNCHANGED outsidePreview

RenderNext ==
  \/ \E c \in RenderMarkups : ChangeCode(c)
  \/ \E t \in Themes : ChangeTheme(t)
  \/ TimerFires
  \/ \E r \in inflight : RenderResolves(r)
  \/ \E r \in inflight : \E err \in RenderThrows : RenderRejects(r, err)

(***************************************************************************)
(* components/Preview.tsx: the viewport                                    *)
(*                                                                         *)
(* A zoom or a scale is a fraction <<n, d>> in lowest terms, d > 0.        *)
(***************************************************************************)

RECURSIVE GCD(_, _)
GCD(a, b) == IF b = 0 THEN a ELSE GCD(b, a % b)

Abs(x) == IF x < 0 THEN -x ELSE x

Frac(n, d) == <<n \div GCD(Abs(n), d), d \div GCD(Abs(n), d)>>

\* common factors are taken out before any product
FracLess(a, b) ==
  LET g == GCD(a[2], b[2])
  IN a[1] * (b[2] \div g) < b[1] * (a[2] \div g)
FracMin(a, b) == IF FracLess(b, a) THEN b ELSE a
FracMax(a, b) == IF FracLess(a, b) THEN b ELSE a
FracAdd(a, b) ==
  LET g == GCD(a[2], b[2])
  IN Frac(a[1] * (b[2] \div g) + b[1] * (a[2] \div g), a[2] * (b[2] \div g))
FracNeg(a) == <<-a[1], a[2]>>
FracMul(a, b) ==
  LET x == Frac(a[1], b[2])
      y == Frac(b[1], a[2])
  IN <<x[1] * y[1], x[2] * y[2]>>
\* a / b for b > 0
FracDiv(a, b) == FracMul(a, <<b[2], b[1]>>)
FracOf(k) == <<k, 1>>

\* lines 38-40
MIN_ZOOM == <<1, 10>>
MAX_ZOOM == <<5, 1>>
ZOOM_STEP == <<3, 20>>

\* fitToView calls and zoom steps explored, and how far a drag may carry
\* the pan
MaxFits == 1
MaxZoomSteps == 6
MaxDrag == 1

\* the margin of fitToView: lines 199-200
FitMargin == 48

\* where the pointer may be, and the greatest pan coordinate explored
Pointers == {<<0, 0>>, <<2, 1>>}
PanReach == 2 * MaxDrag

\* deltaY of a wheel event
WheelDeltas == {-100, 0, 100}

\* what fitToView may measure: the box of the container, and the natural
\* size of the graphic, none when no svg element is displayed
ContainerBoxes == {<<40, 40>>, <<148, 248>>}
NoGraphic == <<>>
GraphicSizes == {<<0, 10>>, <<300, 70>>, <<10, 10>>}

NoBox == [container |-> <<0, 0>>, size |-> <<0, 0>>]

\* the operation, the fits and zoom steps made so far, what the fit measured
ViewTraced(op, fits, steps, box) ==
  [op |-> op, fits |-> fits, steps |-> steps, box |-> box]
Viewed(op) == viewTrace' = ViewTraced(op, viewTrace.fits, viewTrace.steps, NoBox)
Stepped(op) ==
  /\ viewTrace.steps < MaxZoomSteps
  /\ viewTrace' = ViewTraced(op, viewTrace.fits, viewTrace.steps + 1, NoBox)

ViewInit ==
  /\ zoom = FracOf(1)
  /\ zoomShown = FracOf(1)
  /\ pan = <<0, 0>>
  /\ isPanning = FALSE
  /\ panStartRef = <<0, 0>>
  /\ panOffsetRef = <<0, 0>>
  /\ viewTrace = ViewTraced("mount", 0, 0, NoBox)

\* the scale displayed once zoom is set: the transform moves to it in 0.1 s,
\* and at once while a pan gesture is under way (line 315)
ShownAfterZoom == zoomShown' = IF isPanning THEN zoom' ELSE zoomShown

\* the transition of the transform ends
TransitionEnds ==
  /\ zoomShown # zoom
  /\ zoomShown' = zoom
  /\ UNCHANGED <<zoom, pan, isPanning, panStartRef, panOffsetRef, viewTrace>>
  /\ UNCHANGED outsideView

\* handleWheel: lines 136-143
handleWheel(deltaY) ==
  /\ LET delta == IF deltaY > 0 THEN FracNeg(ZOOM_STEP) ELSE ZOOM_STEP
     IN zoom' = FracMin(MAX_ZOOM, FracMax(MIN_ZOOM, FracAdd(zoom, delta)))
  /\ ShownAfterZoom
  /\ Stepped("handleWheel")
  /\ UNCHANGED <<pan, isPanning, panStartRef, panOffsetRef>>
  /\ UNCHANGED outsideView

\* handleMouseDown: lines 146-157
handleMouseDown(button, altKey, pointer) ==
  /\ IF button = 1 \/ (button = 0 /\ altKey)
     THEN /\ isPanning' = TRUE
          /\ panStartRef' = pointer
          /\ panOffsetRef' = pan
          /\ zoomShown' = zoom
     ELSE UNCHANGED <<isPanning, panStartRef, panOffsetRef, zoomShown>>
  /\ Viewed("handleMouseDown")
  /\ UNCHANGED <<zoom, pan>>
  /\ UNCHANGED outsideView

\* handleMouseMove: lines 159-168
handleMouseMove(pointer) ==
  /\ LET moved == <<panOffsetRef[1] + (pointer[1] - panStartRef[1]),
                    panOffsetRef[2] + (pointer[2] - panStartRef[2])>>
     IN /\ isPanning => Abs(moved[1]) <= PanReach
        /\ pan' = IF isPanning THEN moved ELSE pan
  /\ Viewed("handleMouseMove")
  /\ UNCHANGED <<zoom, zoomShown, isPanning, panStartRef, panOffsetRef>>
  /\ UNCHANGED outsideView

\* handleMouseUp: lines 170-172
handleMouseUp ==
  /\ isPanning' = FALSE
  /\ Viewed("handleMouseUp")
  /\ UNCHANGED <<zoom, zoomShown, pan, panStartRef, panOffsetRef>>
  /\ UNCHANGED outsideView

\* zoomIn: lines 175-177
zoomIn ==
  /\ zoom' = FracMin(MAX_ZOOM, FracAdd(zoom, ZOOM_STEP))
  /\ ShownAfterZoom
  /\ Stepped("zoomIn")
  /\ UNCHANGED <<pan, isPanning, panStartRef, panOffsetRef>>
  /\ UNCHANGED outsideView

\* zoomOut: lines 179-181
zoomOut ==
  /\ zoom' = FracMax(MIN_ZOOM, FracAdd(zoom, FracNeg(ZOOM_STEP)))
  /\ ShownAfterZoom
  /\ Stepped("zoomOut")
  /\ UNCHANGED <<pan, isPanning, panStartRef, panOffsetRef>>
  /\ UNCHANGED outsideView

\* resetView: lines 183-186
resetView ==
  /\ zoom' = FracOf(1)
  /\ ShownAfterZoom
  /\ pan' = <<0, 0>>
  /\ Viewed("resetView")
  /\ UNCHANGED <<isPanning, panStartRef, panOffsetRef>>
  /\ UNCHANGED outsideView

\* svgEl.getBoundingClientRect().width / zoom: the box of the graphic is its
\* natural size at the scale displayed
MeasuredSize(natural, shown, z) == FracDiv(FracMul(FracOf(natural), shown), z)

\* the zoom fitToView sets, from the measured sizes: lines 199-203
FitZoomNoFloor(container, svgWidth, svgHeight) ==
  FracMin(FracMin(FracDiv(FracOf(container[1] - FitMargin), svgWidth),
                  FracDiv(FracOf(container[2] - FitMargin), svgHeight)),
          MAX_ZOOM)
FitZoom(container, svgWidth, svgHeight) ==
  LET scaleX == FracDiv(FracOf(container[1] - FitMargin), svgWidth)
      scaleY == FracDiv(FracOf(container[2] - FitMargin), svgHeight)
      newZoom == FracMin(FracMin(scaleX, scaleY), MAX_ZOOM)
  IN FracMax(MIN_ZOOM, newZoom)

\* fitToView: lines 188-205
fitToView(container, size) ==
  /\ viewTrace.fits < MaxFits
  /\ IF size = NoGraphic
     THEN UNCHANGED <<zoom, zoomShown, pan>>
     ELSE LET svgWidth == MeasuredSize(size[1], zoomShown, zoom)
              svgHeight == MeasuredSize(size[2], zoomShown, zoom)
          IN IF svgWidth = FracOf(0) \/ svgHeight = FracOf(0)
             THEN UNCHANGED <<zoom, zoomShown, pan>>
             ELSE /\ zoom' = FitZoom(container, svgWidth, svgHeight)
                  /\ ShownAfterZoom
                  /\ pan' = <<0, 0>>
  /\ viewTrace' = ViewTraced("fitToView", viewTrace.fits + 1, viewTrace.steps,
                             [container |-> container, size |-> size])
  /\ UNCHANGED <<isPanning, panStartRef, panOffsetRef>>
  /\ UNCHANGED outsideView

\* the viewport under the zoom operations
ViewNext ==
  \/ TransitionEnds
  \/ \E deltaY \in WheelDeltas : handleWheel(deltaY)
  \/ zoomIn
  \/ zoomOut
  \/ resetView
  \/ \E container \in ContainerBoxes : \E size \in GraphicSizes \cup {NoGraphic} :
       fitToView(container, size)

\* the viewport under pan gestures, with the operations that reset the pan
PanNext ==
  \/ TransitionEnds
  \/ \E button \in {0, 1, 2} : \E altKey \in BOOLEAN : \E p \in Pointers :
       handleMouseDown(button, altKey, p)
  \/ \E p \in Pointers : handleMouseMove(p)
  \/ handleMouseUp
  \/ zoomIn
  \/ resetView
  \/ \E container \in ContainerBoxes : \E size \in GraphicSizes \cup {NoGraphic} :
       fitToView(container, size)

(***************************************************************************)
(* lib/store.ts                                                            *)
(***************************************************************************)

MAX_RECENT == 10

NullId == <<0, 0>>
NullPath == <<>>

EmptySession == [tabs |-> <<>>, activeId |-> NullId]

\* a localStorage item: absent, a string JSON.parse rejects, or the JSON
\* text of a value
ItemAbsent(fallback) == [kind |-> "absent", value |-> fallback]
ItemGarbage(fallback) == [kind |-> "garbage", value |-> fallback]
ItemJson(v) == [kind |-> "json", value |-> v]

\* get: raw ? JSON.parse(raw) : fallback, and the fallback when parsing throws
get(item, fallback) == IF item.kind = "json" THEN item.value ELSE fallback

\* set: localStorage.setItem(key, JSON.stringify(value)) in a try whose catch
\* is empty; item is what the key holds
setLosesItem(item, value) ==
  IF setItemThrows THEN ItemAbsent(value) ELSE ItemJson(value)
set(item, value) == IF setItemThrows THEN item ELSE ItemJson(value)

loadTabs == get(lsTabs, EmptySession)
saveTabs(ts, id) == set(lsTabs, [tabs |-> ts, activeId |-> id])

loadRecentFiles == get(lsRecent, <<>>)

\* addRecentFile: filter the path out, unshift it, cut to MAX_RECENT
RecentAfterAddUnfiltered(recent, filePath) ==
  Slice(<<filePath>> \o recent, 1, MAX_RECENT)
RecentAfterAdd(recent, filePath) ==
  LET Other(q) == q # filePath
      unshifted == <<filePath>> \o SelectSeq(recent, Other)
  IN IF Len(unshifted) > MAX_RECENT
     THEN Slice(unshifted, 1, MAX_RECENT)
     ELSE unshifted

addRecentFile(filePath) ==
  set(lsRecent, RecentAfterAdd(loadRecentFiles, filePath))

clearRecentFiles == set(lsRecent, <<>>)

\* DEFAULT_PREFERENCES
DEFAULT_PREFERENCES ==
  [lightTheme |-> "default", darkTheme |-> "dark", fontFamily |-> "Inter",
   customCss |-> ""]

\* the object without fields, the fallback of loadPreferences
NoPreferences == <<>>

\* { ...DEFAULT_PREFERENCES, ...get("preferences", {}) }
loadPreferences ==
  LET stored == get(lsPrefs, NoPreferences)
  IN [f \in DOMAIN DEFAULT_PREFERENCES |->
        IF f \in DOMAIN stored THEN stored[f] ELSE DEFAULT_PREFERENCES[f]]

savePreferences(prefs) == set(lsPrefs, prefs)

\* preferences the settings dialog may save
PreferenceChoices ==
  { DEFAULT_PREFERENCES,
    [DEFAULT_PREFERENCES EXCEPT !.lightTheme = "forest", !.customCss = "svg{}"] }

\* what an earlier run may have left in the preferences item
PersistedPreferences ==
  { ItemAbsent(NoPreferences),
    ItemGarbage(NoPreferences),
    ItemJson([darkTheme |-> "neutral"]) }

StorageIdle ==
  /\ lsPrefs = ItemAbsent(NoPreferences)
  /\ setItemThrows = FALSE

\* the settings dialog saves preferences
SavePreferencesCall(prefs) ==
  /\ lsPrefs' = savePreferences(prefs)
  /\ UNCHANGED setItemThrows
  /\ UNCHANGED outsideStorage

\* the storage fills up or becomes unavailable, and comes back
StorageFails ==
  /\ ~setItemThrows
  /\ setItemThrows' = TRUE
  /\ UNCHANGED lsPrefs
  /\ UNCHANGED outsideStorage

StorageRecovers ==
  /\ setItemThrows
  /\ setItemThrows' = FALSE
  /\ UNCHANGED lsPrefs
  /\ UNCHANGED outsideStorage

(***************************************************************************)
(* hooks/useTabs.ts                                                        *)
(***************************************************************************)

\* open documents, ids per process run, runs, suspended calls explored
MaxTabs == 2
MaxNextId == 2
MaxSessions == 2
MaxTabOps == 1

\* TEMPLATES.flowchart, and what an edit or a file may hold
Template == "flowchart-template"
EditedCode == "edited"
FileCode == "file-text"
\* what setActiveCode may be given: typed text, or a template picked
EditCodes == {EditedCode, Template}

Untitled == <<"Untitled">>

\* paths the dialogs may return: tokens are names and separators
PathA == <<"d", "/", "e", "\\", "a.mmd">>
TabPaths == {PathA}

Separators == {"/", "\\"}

\* position of the last separator of a path, 0 when it has none
RECURSIVE LastSeparator(_, _)
LastSeparator(path, i) ==
  IF i = 0 THEN 0
  ELSE IF path[i] \in Separators THEN i
  ELSE LastSeparator(path, i - 1)

\* path.split(/[\\/]/).pop()
fileNameFrom(path) ==
  Slice(path, LastSeparator(path, Len(path)) + 1, Len(path))

\* `tab-${Date.now()}-${nextId++}`
makeId == <<session, nextId>>

newTab(c, filePath, title) ==
  [id |-> makeId, title |-> title, filePath |-> filePath, code |-> c]

TabIds(ts) == {ts[i].id : i \in DOMAIN ts}

IndexOfId(ts, id) ==
  IF id \in TabIds(ts) THEN CHOOSE i \in DOMAIN ts :
       ts[i].id = id /\ \A j \in 1..(i - 1) : ts[j].id # id
  ELSE 0

\* tabs.find((t) => t.id === activeId) ?? tabs[0]
ActiveTabOf(ts, id) == IF id \in TabIds(ts) THEN ts[IndexOfId(ts, id)] ELSE ts[1]
activeTab == ActiveTabOf(tabs, activeId)

\* index of the first document backed by path, 0 when there is none
IndexOfPath(snap, path) ==
  IF \E i \in DOMAIN snap : snap[i].filePath = path
  THEN CHOOSE i \in DOMAIN snap :
         snap[i].filePath = path /\ \A j \in 1..(i - 1) : snap[j].filePath # path
  ELSE 0

\* the state the two useState initialisers compute from the store
InitialTabs(saved, fresh) == IF Len(saved.tabs) > 0 THEN saved.tabs ELSE <<fresh>>
InitialActiveIdFirst(saved, ts) == ts[1].id
InitialActiveId(saved, ts) ==
  IF saved.activeId # NullId /\ saved.activeId \in TabIds(saved.tabs)
  THEN saved.activeId
  ELSE ts[1].id

\* sessions an earlier run may have left in the store
OldTab1 == [id |-> <<0, 1>>, title |-> <<"a.mmd">>, filePath |-> PathA, code |-> FileCode]
OldTab2 == [id |-> <<0, 2>>, title |-> Untitled, filePath |-> NullPath, code |-> EditedCode]
PersistedSessions ==
  { ItemAbsent(EmptySession),
    ItemGarbage(EmptySession),
    ItemJson(EmptySession),
    ItemJson([tabs |-> <<OldTab1, OldTab2>>, activeId |-> <<0, 2>>]),
    ItemJson([tabs |-> <<OldTab2>>, activeId |-> <<0, 7>>]) }

NoToast == "none"

\* the in-memory state of a process run started over the stored session
Mounted(saved, run) ==
  LET fresh == [id |-> <<run, 1>>, title |-> Untitled, filePath |-> NullPath,
                code |-> Template]
      ts == InitialTabs(saved, fresh)
  IN [tabs |-> ts,
      activeId |-> InitialActiveId(saved, ts),
      nextId |-> IF Len(saved.tabs) > 0 THEN 1 ELSE 2]

SessionInit ==
  /\ lsTabs \in PersistedSessions
  /\ session = 1
  /\ tabs = Mounted(get(lsTabs, EmptySession), 1).tabs
  /\ activeId = Mounted(get(lsTabs, EmptySession), 1).activeId
  /\ nextId = Mounted(get(lsTabs, EmptySession), 1).nextId
  /\ saveTimer = TRUE
  /\ tabOps = <<>>
  /\ tabFault = FALSE
  /\ disk = [q \in TabPaths |-> IF q = PathA THEN FileCode ELSE "absent"]
  /\ tabTrace = <<"mount", 0, NoToast>>

TabsInit ==
  /\ SessionInit
  /\ lsRecent = ItemAbsent(<<>>)
  /\ StorageIdle

\* setTabs always stores a new array and setActiveId rerenders when the id
\* changes: the effect of lines 54-60 then restarts the timer
RearmOnActiveOnly(tabsWritten) ==
  saveTimer' = (saveTimer \/ activeId' # activeId)
Rearm(tabsWritten) ==
  saveTimer' = (saveTimer \/ tabsWritten \/ activeId' # activeId)

\* updateTab: merge the patch into the document with that id
Patched(ts, id, patch) ==
  [i \in DOMAIN ts |->
     IF ts[i].id = id
     THEN [f \in DOMAIN ts[i] |-> IF f \in DOMAIN patch THEN patch[f] ELSE ts[i][f]]
     ELSE ts[i]]

Running == ~tabFault

\* what the operation was, how many documents it found and the toast it showed
Traced(op, shown) == tabTrace' = <<op, Len(tabs), shown>>

setActiveCode(c) ==
  /\ Running
  /\ tabs' = Patched(tabs, activeId, [code |-> c])
  /\ UNCHANGED <<activeId, nextId>>
  /\ Rearm(TRUE)
  /\ Traced("setActiveCode", NoToast)
  /\ UNCHANGED <<session, tabOps, tabFault, disk, storeVars>>
  /\ UNCHANGED outsideTabs

\* addTab() of handleNewTab
addTab ==
  /\ Running
  /\ Len(tabs) < MaxTabs
  /\ nextId <= MaxNextId
  /\ tabs' = Append(tabs, newTab(Template, NullPath, Untitled))
  /\ activeId' = makeId
  /\ nextId' = nextId + 1
  /\ Rearm(TRUE)
  /\ Traced("addTab", NoToast)
  /\ UNCHANGED <<session, tabOps, tabFault, disk, storeVars>>
  /\ UNCHANGED outsideTabs

RemoveId(ts, id) ==
  LET Keep(t) == t.id # id IN SelectSeq(ts, Keep)

\* what the updater of closeTab returns: lines 94 and 102-109
TabsAfterCloseNoDefault(prev, id, fresh) == RemoveId(prev, id)
TabsAfterClose(prev, id, fresh) ==
  IF Len(RemoveId(prev, id)) = 0 THEN <<fresh>> ELSE RemoveId(prev, id)

closeTabKeepsActive(id) ==
  /\ Running
  /\ LET idx == IndexOfId(tabs, id)
         next == RemoveId(tabs, id)
     IN IF id = activeId /\ Len(next) > 0 /\ idx = 0
        THEN \* next[-1] is undefined: reading its id throws in the updater
             /\ tabFault' = TRUE
             /\ UNCHANGED <<tabs, activeId, nextId, saveTimer>>
        ELSE IF Len(next) = 0
        THEN /\ nextId <= MaxNextId
             /\ tabs' = TabsAfterClose(tabs, id, newTab(Template, NullPath, Untitled))
             /\ activeId' = makeId
             /\ nextId' = nextId + 1
             /\ Rearm(TRUE)
             /\ UNCHANGED tabFault
        ELSE /\ tabs' = TabsAfterClose(tabs, id, newTab(Template, NullPath, Untitled))
             /\ activeId' = activeId
             /\ Rearm(TRUE)
             /\ UNCHANGED <<nextId, tabFault>>
  /\ Traced("closeTab", NoToast)
  /\ UNCHANGED <<session, tabOps, disk, storeVars>>
  /\ UNCHANGED outsideTabs

\* closeTab(id): lines 90-113
closeTab(id) ==
  /\ Running
  /\ LET idx == IndexOfId(tabs, id)
         next == RemoveId(tabs, id)
     IN IF id = activeId /\ Len(next) > 0 /\ idx = 0
        THEN \* next[-1] is undefined: reading its id throws in the updater
             /\ tabFault' = TRUE
             /\ UNCHANGED <<tabs, activeId, nextId, saveTimer>>
        ELSE IF Len(next) = 0
        THEN /\ nextId <= MaxNextId
             /\ tabs' = TabsAfterClose(tabs, id, newTab(Template, NullPath, Untitled))
             /\ activeId' = makeId
             /\ nextId' = nextId + 1
             /\ Rearm(TRUE)
             /\ UNCHANGED tabFault
        ELSE /\ tabs' = TabsAfterClose(tabs, id, newTab(Template, NullPath, Untitled))
             /\ activeId' = IF id = activeId
                            THEN next[Min(idx, Len(next))].id
                            ELSE activeId
             /\ Rearm(TRUE)
             /\ UNCHANGED <<nextId, tabFault>>
  /\ Traced("closeTab", NoToast)
  /\ UNCHANGED <<session, tabOps, disk, storeVars>>
  /\ UNCHANGED outsideTabs

\* One run of the updater of closeTab (lines 92-110) over the pending state
\* st, in a callback whose closure holds snapActive as the active id
CloseUpdate(st, snapActive, id) ==
  LET idx == IndexOfId(st.tabs, id)
      next == RemoveId(st.tabs, id)
      fresh == [id |-> <<session, st.nextId>>, title |-> Untitled,
                filePath |-> NullPath, code |-> Template]
  IN IF st.fault THEN st
     ELSE IF id = snapActive /\ Len(next) > 0 /\ idx = 0
     THEN \* next[-1] is undefined: reading its id throws in the updater
          [st EXCEPT !.fault = TRUE]
     ELSE IF Len(next) = 0
     THEN [tabs |-> <<fresh>>, activeId |-> fresh.id, nextId |-> st.nextId + 1,
           fault |-> FALSE]
     ELSE [tabs |-> next,
           activeId |-> IF id = snapActive THEN next[Min(idx, Len(next))].id
                        ELSE st.activeId,
           nextId |-> st.nextId, fault |-> FALSE]

\* closeTab(first) and closeTab(second) called from the callback of one
\* render: both closures hold the activeId of that render (line 112), and
\* the second updater runs over what the first returned
closeTabTwice(first, second) ==
  /\ Running
  /\ LET st0 == [tabs |-> tabs, activeId |-> activeId, nextId |-> nextId,
                 fault |-> FALSE]
         st1 == CloseUpdate(st0, activeId, first)
         st2 == CloseUpdate(st1, activeId, second)
     IN /\ st2.nextId <= MaxNextId + 1
        /\ IF st2.fault
           THEN /\ tabFault' = TRUE
                /\ UNCHANGED <<tabs, activeId, nextId, saveTimer>>
           ELSE /\ tabs' = st2.tabs
                /\ activeId' = st2.activeId
                /\ nextId' = st2.nextId
                /\ Rearm(TRUE)
                /\ UNCHANGED tabFault
  /\ Traced("closeTabTwice", NoToast)
  /\ UNCHANGED <<session, tabOps, disk, storeVars>>
  /\ UNCHANGED outsideTabs

selectTab(id) ==
  /\ Running
  /\ activeId' = id
  /\ Rearm(FALSE)
  /\ Traced("selectTab", NoToast)
  /\ UNCHANGED <<tabs, nextId, session, tabOps, tabFault, disk, storeVars>>
  /\ UNCHANGED outsideTabs

\* A call of openFile, openRecentFile, saveFile or saveFileAs suspended at an
\* await.  It keeps what its closure captured when it was called: the
\* documents (snap) and the active document (tabId, code, reuse).
TabOp(kind, pc, path, snap, active) ==
  [kind |-> kind, pc |-> pc, path |-> path,
   snap |-> [i \in DOMAIN snap |-> [id |-> snap[i].id, filePath |-> snap[i].filePath]],
   tabId |-> active.id, code |-> active.code,
   reuse |-> (active.filePath = NullPath /\ active.code = Template)]

RemoveAt(sq, k) == [i \in 1..(Len(sq) - 1) |-> IF i < k THEN sq[i] ELSE sq[i + 1]]

CanCall == Running /\ Len(tabOps) < MaxTabOps

\* openFile up to the file dialog: lines 121-132
openFile ==
  /\ CanCall
  /\ tabOps' = Append(tabOps, TabOp("open", "dialog", NullPath, tabs, activeTab))
  /\ Traced("openFile", NoToast)
  /\ UNCHANGED <<tabs, activeId, nextId, session, saveTimer, tabFault, disk,
                 storeVars>>
  /\ UNCHANGED outsideTabs

\* the file dialog returns a path, or null when it is cancelled: lines 134-145
openDialogReturns(k, path) ==
  /\ Running
  /\ k \in DOMAIN tabOps
  /\ tabOps[k].kind = "open" /\ tabOps[k].pc = "dialog"
  /\ LET op == tabOps[k]
         existing == IndexOfPath(op.snap, path)
     IN IF path = NullPath
        THEN /\ tabOps' = RemoveAt(tabOps, k)
             /\ UNCHANGED activeId
        ELSE IF existing # 0
        THEN /\ activeId' = op.snap[existing].id
             /\ tabOps' = RemoveAt(tabOps, k)
        ELSE /\ tabOps' = [tabOps EXCEPT ![k] = [op EXCEPT !.pc = "read", !.path = path]]
             /\ UNCHANGED activeId
  /\ Rearm(FALSE)
  /\ Traced("openDialogReturns", IF path # NullPath /\ IndexOfPath(tabOps[k].snap, path) # 0
                                 THEN "File already open" ELSE NoToast)
  /\ UNCHANGED <<tabs, nextId, session, tabFault, disk, storeVars>>
  /\ UNCHANGED outsideTabs

\* openRecentFile(filePath) up to the file read: lines 170-182
openRecentFile(filePath) ==
  /\ CanCall
  /\ LET existing == IndexOfPath(tabs, filePath)
     IN IF existing # 0
        THEN /\ activeId' = tabs[existing].id
             /\ UNCHANGED tabOps
        ELSE /\ tabOps' = Append(tabOps,
                            TabOp("recent", "read", filePath, <<>>, activeTab))
             /\ UNCHANGED activeId
  /\ Rearm(FALSE)
  /\ Traced("openRecentFile", NoToast)
  /\ UNCHANGED <<tabs, nextId, session, tabFault, disk, storeVars>>
  /\ UNCHANGED outsideTabs

\* readTextFile resolves: lines 145-163 and 182-199
readResolves(k) ==
  /\ Running
  /\ k \in DOMAIN tabOps
  /\ tabOps[k].pc = "read"
  /\ disk[tabOps[k].path] # "absent"
  /\ LET op == tabOps[k]
         content == disk[op.path]
     IN /\ lsRecent' = addRecentFile(op.path)
        /\ IF op.reuse
           THEN /\ tabs' = Patched(tabs, op.tabId,
                             [code |-> content, filePath |-> op.path,
                              title |-> fileNameFrom(op.path)])
                /\ UNCHANGED <<activeId, nextId>>
           ELSE /\ Len(tabs) < MaxTabs
                /\ nextId <= MaxNextId
                /\ tabs' = Append(tabs, newTab(content, op.path, fileNameFrom(op.path)))
                /\ activeId' = makeId
                /\ nextId' = nextId + 1
        /\ tabOps' = RemoveAt(tabOps, k)
  /\ Rearm(TRUE)
  /\ Traced("readResolves", "File opened")
  /\ UNCHANGED <<lsTabs, session, tabFault, disk>>
  /\ UNCHANGED outsideTabs

\* readTextFile rejects: the catch of lines 165 and 200
readRejects(k) ==
  /\ Running
  /\ k \in DOMAIN tabOps
  /\ tabOps[k].pc = "read"
  /\ tabOps' = RemoveAt(tabOps, k)
  /\ Traced("readRejects", IF tabOps[k].kind = "recent"
                    THEN "Failed to open file - it may have been moved or deleted"
                    ELSE "Failed to open file")
  /\ UNCHANGED <<tabs, activeId, nextId, session, saveTimer, tabFault, disk,
                 storeVars>>
  /\ UNCHANGED outsideTabs

\* saveFile up to its first await: lines 207-220
saveFile ==
  /\ CanCall
  /\ tabOps' = Append(tabOps,
       IF activeTab.filePath # NullPath
       THEN TabOp("save", "write", activeTab.filePath, <<>>, activeTab)
       ELSE TabOp("saveNew", "dialog", NullPath, <<>>, activeTab))
  /\ Traced("saveFile", NoToast)
  /\ UNCHANGED <<tabs, activeId, nextId, session, saveTimer, tabFault, disk,
                 storeVars>>
  /\ UNCHANGED outsideTabs

\* saveFileAs up to the save dialog: lines 236-245
saveFileAs ==
  /\ CanCall
  /\ tabOps' = Append(tabOps, TabOp("saveAs", "dialog", NullPath, <<>>, activeTab))
  /\ Traced("saveFileAs", NoToast)
  /\ UNCHANGED <<tabs, activeId, nextId, session, saveTimer, tabFault, disk,
                 storeVars>>
  /\ UNCHANGED outsideTabs

\* the save dialog returns a path, or null when it is cancelled
saveDialogReturns(k, path) ==
  /\ Running
  /\ k \in DOMAIN tabOps
  /\ tabOps[k].kind \in {"saveNew", "saveAs"} /\ tabOps[k].pc = "dialog"
  /\ tabOps' = IF path = NullPath
               THEN RemoveAt(tabOps, k)
               ELSE [tabOps EXCEPT ![k] = [@ EXCEPT !.pc = "write", !.path = path]]
  /\ Traced("saveDialogReturns", NoToast)
  /\ UNCHANGED <<tabs, activeId, nextId, session, saveTimer, tabFault, disk,
                 storeVars>>
  /\ UNCHANGED outsideTabs

\* writeTextFile resolves: lines 213-214, 222-228 and 247-253
writeResolves(k) ==
  /\ Running
  /\ k \in DOMAIN tabOps
  /\ tabOps[k].pc = "write"
  /\ LET op == tabOps[k]
     IN /\ disk' = [disk EXCEPT ![op.path] = op.code]
        /\ IF op.kind = "save"
           THEN UNCHANGED <<tabs, saveTimer, lsRecent>>
           ELSE /\ tabs' = Patched(tabs, op.tabId,
                             [filePath |-> op.path, title |-> fileNameFrom(op.path)])
                /\ lsRecent' = addRecentFile(op.path)
                /\ saveTimer' = TRUE
        /\ tabOps' = RemoveAt(tabOps, k)
  /\ Traced("writeResolves", "File saved")
  /\ UNCHANGED <<activeId, nextId, session, tabFault, lsTabs>>
  /\ UNCHANGED outsideTabs

\* writeTextFile rejects: the catch of lines 231 and 255
writeRejectsAfterPatch(k) ==
  /\ Running
  /\ k \in DOMAIN tabOps
  /\ tabOps[k].pc = "write"
  /\ LET op == tabOps[k]
     IN IF op.kind = "save"
        THEN UNCHANGED <<tabs, saveTimer, lsRecent>>
        ELSE /\ tabs' = Patched(tabs, op.tabId,
                          [filePath |-> op.path, title |-> fileNameFrom(op.path)])
             /\ lsRecent' = addRecentFile(op.path)
             /\ saveTimer' = TRUE
  /\ tabOps' = RemoveAt(tabOps, k)
  /\ Traced("writeRejects", "Failed to save file")
  /\ UNCHANGED <<activeId, nextId, session, tabFault, disk, lsTabs>>
  /\ UNCHANGED outsideTabs
writeRejects(k) ==
  /\ Running
  /\ k \in DOMAIN tabOps
  /\ tabOps[k].pc = "write"
  /\ tabOps' = RemoveAt(tabOps, k)
  /\ Traced("writeRejects", "Failed to save file")
  /\ UNCHANGED <<tabs, activeId, nextId, session, saveTimer, tabFault, disk,
                 storeVars>>
  /\ UNCHANGED outsideTabs

\* the auto-save timer fires: saveTabs(tabs, activeId), line 57
saveTimerFires ==
  /\ Running
  /\ saveTimer
  /\ saveTimer' = FALSE
  /\ lsTabs' = saveTabs(tabs, activeId)
  /\ Traced("saveTimerFires", NoToast)
  /\ UNCHANGED <<tabs, activeId, nextId, session, tabOps, tabFault, disk,
                 lsRecent>>
  /\ UNCHANGED outsideTabs

\* the process stops, at any moment, and the application is started again:
\* the initialisers of lines 35-47 run over what the store holds
Restart ==
  /\ session < MaxSessions
  /\ session' = session + 1
  /\ tabs' = Mounted(loadTabs, session + 1).tabs
  /\ activeId' = Mounted(loadTabs, session + 1).activeId
  /\ nextId' = Mounted(loadTabs, session + 1).nextId
  /\ saveTimer' = TRUE
  /\ tabOps' = <<>>
  /\ tabFault' = FALSE
  /\ Traced("Restart", NoToast)
  /\ UNCHANGED <<disk, storeVars>>
  /\ UNCHANGED outsideTabs

TabsNext ==
  \/ \E c \in EditCodes : setActiveCode(c)
  \/ addTab
  \/ \E id \in TabIds(tabs) \cup {activeId} : closeTab(id)
  \/ \E id \in TabIds(tabs) : selectTab(id)
  \/ openFile
  \/ \E k \in DOMAIN tabOps : \E q \in TabPaths \cup {NullPath} : openDialogReturns(k, q)
  \/ \E q \in TabPaths : openRecentFile(q)
  \/ \E k \in DOMAIN tabOps : readResolves(k)
  \/ \E k \in DOMAIN tabOps : readRejects(k)
  \/ saveFile
  \/ saveFileAs
  \/ \E k \in DOMAIN tabOps : \E q \in TabPaths \cup {NullPath} : saveDialogReturns(k, q)
  \/ \E k \in DOMAIN tabOps : writeResolves(k)
  \/ \E k \in DOMAIN tabOps : writeRejects(k)

\* ids of this run that no open document has: of closed documents, or not
\* yet given out
AbsentIds(ts) == {<<session, n>> : n \in 1..(MaxNextId + 1)} \ TabIds(ts)

\* the tab store when selectTab is given any id, open or not
SelectNext ==
  \/ \E c \in EditCodes : setActiveCode(c)
  \/ addTab
  \/ \E id \in TabIds(tabs) \cup {activeId} : closeTab(id)
  \/ \E id \in TabIds(tabs) \cup AbsentIds(tabs) : selectTab(id)

\* the tab store when selectTab is given open ids only and a callback may
\* call closeTab twice before the next render
CloseNext ==
  \/ \E c \in EditCodes : setActiveCode(c)
  \/ addTab
  \/ \E id \in TabIds(tabs) : closeTab(id)
  \/ \E id \in TabIds(tabs) : selectTab(id)
  \/ \E first, second \in TabIds(tabs) : closeTabTwice(first, second)

\* the session under edits of the documents, the auto-save timer and stops
\* of the process
SessionNext ==
  \/ \E c \in EditCodes : setActiveCode(c)
  \/ addTab
  \/ \E id \in TabIds(tabs) : closeTab(id)
  \/ \E id \in TabIds(tabs) : selectTab(id)
  \/ \E q \in TabPaths : openRecentFile(q)
  \/ \E k \in DOMAIN tabOps : readResolves(k)
  \/ \E k \in DOMAIN tabOps : readRejects(k)
  \/ saveTimerFires
  \/ Restart

(***************************************************************************)
(* lib/store.ts: the recent-files list under calls of its two writers      *)
(***************************************************************************)

\* paths beyond MAX_RECENT, addRecentFile calls and calls that name a path
\* already listed
MaxExtraPaths == 1
MaxAdds == 12
MaxReadds == 2

RecentPath(i) == <<"d", "/", ToString(i)>>
RecentPaths == {RecentPath(i) : i \in 1..(MAX_RECENT + MaxExtraPaths)}

Listed(recent) == {recent[i] : i \in DOMAIN recent}

\* addRecentFile compares paths by equality only: of the paths not listed,
\* the one of least index stands for all of them
Unlisted(recent) ==
  {RecentPath(i) : i \in {n \in 1..(MAX_RECENT + MaxExtraPaths) :
     /\ RecentPath(n) \notin Listed(recent)
     /\ \A m \in 1..(n - 1) : RecentPath(m) \in Listed(recent)}}

NoCalls == [adds |-> 0, readds |-> 0, last |-> NullPath]

RecentInit ==
  /\ lsRecent \in {ItemAbsent(<<>>), ItemGarbage(<<>>), ItemJson(<<>>)}
  /\ recentCalls = NoCalls

AddRecentFileCall(filePath) ==
  /\ recentCalls.adds < MaxAdds
  /\ filePath \in Listed(loadRecentFiles) => recentCalls.readds < MaxReadds
  /\ lsRecent' = addRecentFile(filePath)
  /\ recentCalls' =
       [adds |-> recentCalls.adds + 1,
        readds |-> recentCalls.readds +
                     (IF filePath \in Listed(loadRecentFiles) THEN 1 ELSE 0),
        last |-> filePath]
  /\ UNCHANGED outsideRecent

ClearRecentFilesCall ==
  /\ lsRecent' = clearRecentFiles
  /\ recentCalls' = [recentCalls EXCEPT !.last = NullPath]
  /\ UNCHANGED outsideRecent

RecentNext ==
  \/ \E q \in Listed(loadRecentFiles) \cup Unlisted(loadRecentFiles) :
       AddRecentFileCall(q)
  \/ ClearRecentFilesCall

(***************************************************************************)
(* hooks/useFileTree.ts                                                    *)
(*                                                                         *)
(* A path is a sequence of tokens, names and separator characters.  The    *)
(* filesystem resolves a path to a location, a sequence of segments: on    *)
(* "win" both separators end a segment, on "posix" only "/" does and a     *)
(* backslash is part of a name.  A name is the sequence of tokens of one   *)
(* segment.                                                                *)
(***************************************************************************)

Platforms == {"win", "posix"}

SeparatorsOf(pf) == IF pf = "win" THEN {"/", "\\"} ELSE {"/"}

\* the location a path names: its non-empty segments
RECURSIVE Segments(_, _, _)
Segments(pf, path, cur) ==
  IF path = <<>> THEN (IF cur = <<>> THEN <<>> ELSE <<cur>>)
  ELSE IF Head(path) \in SeparatorsOf(pf)
  THEN (IF cur = <<>> THEN <<>> ELSE <<cur>>) \o Segments(pf, Tail(path), <<>>)
  ELSE Segments(pf, Tail(path), Append(cur, Head(path)))

Locate(pf, path) == Segments(pf, path, <<>>)

Front(sq) == Slice(sq, 1, Len(sq) - 1)

\* the filesystem: a node for each existing location below the top directory
DirNode == [isDirectory |-> TRUE, content |-> "none"]
FileNode(content) == [isDirectory |-> FALSE, content |-> content]

IsDir(fsx, loc) == loc = <<>> \/ (loc \in DOMAIN fsx /\ fsx[loc].isDirectory)
IsFile(fsx, loc) == loc \in DOMAIN fsx /\ ~fsx[loc].isDirectory

\* the content of a file that is no text: readTextFile rejects
NotText == "not-text"
CanReadTextNotEmpty(fsx, loc) ==
  IsFile(fsx, loc) /\ fsx[loc].content \notin {NotText, ""}
CanReadText(fsx, loc) == IsFile(fsx, loc) /\ fsx[loc].content # NotText

Under(loc, dir) == Len(loc) > Len(dir) /\ Slice(loc, 1, Len(dir)) = dir
ChildrenOf(fsx, dir) == {loc \in DOMAIN fsx : Len(loc) = Len(dir) + 1 /\ Under(loc, dir)}

\* the calls of @tauri-apps/plugin-fs: whether they resolve, and the
\* filesystem they leave
CanWrite(fsx, loc) == loc # <<>> /\ IsDir(fsx, Front(loc)) /\ ~IsDir(fsx, loc)
Written(fsx, loc, content) ==
  [l \in DOMAIN fsx \cup {loc} |-> IF l = loc THEN FileNode(content) ELSE fsx[l]]

CanMkdir(fsx, loc) == loc # <<>> /\ IsDir(fsx, Front(loc)) /\ loc \notin DOMAIN fsx
MadeDir(fsx, loc) ==
  [l \in DOMAIN fsx \cup {loc} |-> IF l = loc THEN DirNode ELSE fsx[l]]

CanRemove(fsx, loc, recursive) ==
  /\ loc \in DOMAIN fsx
  /\ recursive \/ ChildrenOf(fsx, loc) = {}
Removed(fsx, loc) ==
  [l \in {m \in DOMAIN fsx : m # loc /\ ~Under(m, loc)} |-> fsx[l]]

\* rename(from, to): a file takes the place of a file of the new name; a
\* directory takes the place of an empty directory on "posix" only
CanRename(pf, fsx, from, to) ==
  /\ from \in DOMAIN fsx
  /\ to # <<>>
  /\ IsDir(fsx, Front(to))
  /\ ~Under(to, from)
  /\ (to \in DOMAIN fsx /\ to # from) =>
       IF fsx[to].isDirectory
       THEN pf = "posix" /\ fsx[from].isDirectory /\ ChildrenOf(fsx, to) = {}
       ELSE ~fsx[from].isDirectory
Renamed(fsx, from, to) ==
  IF from = to THEN fsx
  ELSE LET base == Removed(fsx, to)
           moved == {l \in DOMAIN base : l = from \/ Under(l, from)}
           kept == DOMAIN base \ moved
           Rebased(l) == to \o Slice(l, Len(from) + 1, Len(l))
           Origin(l) == from \o Slice(l, Len(to) + 1, Len(l))
       IN [l \in kept \cup {Rebased(m) : m \in moved} |->
             IF l \in kept THEN base[l] ELSE base[Origin(l)]]

\* names: which of them are hidden, which carry a Mermaid extension, and
\* their order under localeCompare
HiddenTokens == {".git"}
MermaidTokens == {"a.mmd", "b.mmd"}
TokenOrder == <<".git", "a.mmd", "b.mmd", "n.txt", "r", "sub", "x", "\\", "/">>

TokenRank(t) == CHOOSE i \in DOMAIN TokenOrder : TokenOrder[i] = t

\* name.startsWith(".")
IsHidden(name) == Head(name) \in HiddenTokens

\* MERMAID_EXTENSIONS.some((ext) => name.toLowerCase().endsWith(ext))
isMermaidFile(name) == name[Len(name)] \in MermaidTokens

RECURSIVE NameOrderLess(_, _)
NameOrderLess(a, b) ==
  IF a = <<>> THEN b # <<>>
  ELSE IF b = <<>> THEN FALSE
  ELSE IF Head(a) # Head(b) THEN TokenRank(Head(a)) < TokenRank(Head(b))
  ELSE NameOrderLess(Tail(a), Tail(b))

\* dirPath.replace(/[\\/]$/, "") + "\\" + name
StripTrailingSeparator(path) ==
  IF path # <<>> /\ path[Len(path)] \in Separators THEN Front(path) ELSE path

JoinPath(dirPath, name) == StripTrailingSeparator(dirPath) \o <<"\\">> \o name

Unloaded == [loaded |-> FALSE, items |-> <<>>]
Loaded(items) == [loaded |-> TRUE, items |-> items]

FileEntry(name, path, isDirectory, children) ==
  [name |-> name, path |-> path, isDirectory |-> isDirectory, children |-> children]

\* folders first, then files, each by name
EntryBefore(a, b) ==
  IF a.isDirectory # b.isDirectory THEN a.isDirectory
  ELSE NameOrderLess(a.name, b.name)

RECURSIVE SortEntries(_)
SortEntries(S) ==
  IF S = {} THEN <<>>
  ELSE LET first == CHOOSE a \in S : \A b \in S \ {a} : EntryBefore(a, b)
       IN <<first>> \o SortEntries(S \ {first})

\* readDirectory(dirPath): lines 25-60
CanReadDir(pf, fsx, dirPath) == IsDir(fsx, Locate(pf, dirPath))

readDirectory(pf, fsx, dirPath) ==
  LET dir == Locate(pf, dirPath)
      shown == {loc \in ChildrenOf(fsx, dir) :
                  /\ ~IsHidden(loc[Len(loc)])
                  /\ fsx[loc].isDirectory \/ isMermaidFile(loc[Len(loc)])}
  IN SortEntries({FileEntry(loc[Len(loc)], JoinPath(dirPath, loc[Len(loc)]),
                            fsx[loc].isDirectory, Unloaded) : loc \in shown})

\* reloadExpanded of refresh: lines 172-192
reloadExpandedTop(pf, fsx, entries, expanded) ==
  [i \in DOMAIN entries |->
     LET entry == entries[i]
     IN IF entry.isDirectory /\ entry.path \in expanded
        THEN IF CanReadDir(pf, fsx, entry.path)
             THEN [entry EXCEPT !.children =
                     Loaded(readDirectory(pf, fsx, entry.path))]
             ELSE [entry EXCEPT !.children = Loaded(<<>>)]
        ELSE entry]
RECURSIVE reloadExpanded(_, _, _, _)
reloadExpanded(pf, fsx, entries, expanded) ==
  [i \in DOMAIN entries |->
     LET entry == entries[i]
     IN IF entry.isDirectory /\ entry.path \in expanded
        THEN IF CanReadDir(pf, fsx, entry.path)
             THEN [entry EXCEPT !.children =
                     Loaded(reloadExpanded(pf, fsx,
                              readDirectory(pf, fsx, entry.path), expanded))]
             ELSE [entry EXCEPT !.children = Loaded(<<>>)]
        ELSE entry]

\* refresh as the closure that captured root and expanded runs it: the tree
\* it stores, or the tree it leaves when it returns early or the listing fails
Refreshed(pf, fsx, root, expanded, current) ==
  IF root = NullPath THEN current
  ELSE IF ~CanReadDir(pf, fsx, root) THEN current
  ELSE reloadExpanded(pf, fsx, readDirectory(pf, fsx, root), expanded)

\* the cap of pushUndo: line 75
UndoCap == 50

\* pushUndo: lines 72-78
pushUndoForgets(stack, action) == <<action>>
pushUndoUncapped(stack, action) == Append(stack, action)
pushUndo(stack, action) ==
  IF Len(Append(stack, action)) > UndoCap
  THEN Tail(Append(stack, action))
  ELSE Append(stack, action)

\* an undo action: its label and what execute does, with the root and the
\* expanded set its refresh captured
UndoAction(label, kind, path, content) ==
  [label |-> label, kind |-> kind, path |-> path, content |-> content,
   target |-> NullPath, root |-> rootPath, expanded |-> expandedDirs]

\* the undo action of renameEntry: doRename(newPath, oldPath)
RenameBack(label, newPath, oldPath) ==
  [UndoAction(label, "rename", newPath, "none") EXCEPT !.target = oldPath]

\* the text createFile writes
NewFileText == "flowchart TD\n    A[Start] --> B[End]\n"

Root == <<"r">>
MissingDir == <<"x">>
LoadDirs == {Root, MissingDir}
FileA == <<"a.mmd">>
FileB == <<"b.mmd">>
FolderSub == <<"sub">>

\* what the directory holds when the application starts: a hidden folder and
\* a file of another kind, without or with a diagram file
BareRoot ==
  [l \in {<<Root>>, <<Root, <<".git">>>>, <<Root, <<"n.txt">>>>} |->
     IF l = <<Root, <<"n.txt">>>> THEN FileNode("notes") ELSE DirNode]
InitialFilesystems == {BareRoot, Written(BareRoot, <<Root, FileA>>, "old-diagram")}

\* what readDir reports for a directory: names and kinds
Listing(pf, fsx, dirPath) ==
  {[name |-> loc[Len(loc)], isDirectory |-> fsx[loc].isDirectory] :
     loc \in ChildrenOf(fsx, Locate(pf, dirPath))}

\* the paths of the entries the tree shows
RECURSIVE TreePaths(_)
TreePaths(entries) ==
  UNION {{entries[i].path} \cup TreePaths(entries[i].children.items) :
           i \in DOMAIN entries}

\* what the last operation was and whether it succeeded; for a create, a
\* delete or a rename that succeeded, what it was given, what it returned,
\* what it found (listing, stack, before) and whether it pushed an action
Quiet(op, ok) ==
  [op |-> op, ok |-> ok, dir |-> NullPath, listing |-> {}, stack |-> <<>>,
   path |-> NullPath, ret |-> NullPath, before |-> <<>>, pushed |-> FALSE]

TreeInit ==
  /\ platform \in Platforms
  /\ fs \in InitialFilesystems
  /\ rootPath = NullPath
  /\ tree = <<>>
  /\ expandedDirs = {}
  /\ loadingRef = FALSE
  /\ loadCalls = <<>>
  /\ treeOps = <<>>
  /\ undoStack = <<>>
  /\ treeToast = <<>>
  /\ treeTrace = Quiet("mount", TRUE)

\* loadRoot(dirPath) up to its listing: lines 81-86
loadRootUnguarded(dirPath) ==
  /\ loadingRef' = TRUE
  /\ loadCalls' = Append(loadCalls, dirPath)
  /\ treeTrace' = Quiet("loadRoot", TRUE)
  /\ UNCHANGED <<platform, fs, rootPath, tree, expandedDirs, undoStack, treeToast>>
  /\ UNCHANGED treeOps
  /\ UNCHANGED outsideTree
loadRoot(dirPath) ==
  /\ IF loadingRef
     THEN /\ treeTrace' = Quiet("loadRoot", FALSE)
          /\ UNCHANGED <<loadingRef, loadCalls>>
     ELSE /\ loadingRef' = TRUE
          /\ loadCalls' = Append(loadCalls, dirPath)
          /\ treeTrace' = Quiet("loadRoot", TRUE)
  /\ UNCHANGED <<platform, fs, rootPath, tree, expandedDirs, undoStack, treeToast>>
  /\ UNCHANGED treeOps
  /\ UNCHANGED outsideTree

\* the listing of loadRoot resolves: lines 87-89 and 92-95
loadRootResolves ==
  /\ loadCalls # <<>>
  /\ CanReadDir(platform, fs, Head(loadCalls))
  /\ tree' = readDirectory(platform, fs, Head(loadCalls))
  /\ rootPath' = Head(loadCalls)
  /\ expandedDirs' = {}
  /\ loadingRef' = FALSE
  /\ loadCalls' = Tail(loadCalls)
  /\ treeTrace' = Quiet("loadRootResolves", TRUE)
  /\ UNCHANGED <<platform, fs, undoStack, treeToast>>
  /\ UNCHANGED treeOps
  /\ UNCHANGED outsideTree

\* the listing of loadRoot rejects: lines 90-95
loadRootRejects ==
  /\ loadCalls # <<>>
  /\ ~CanReadDir(platform, fs, Head(loadCalls))
  /\ tree' = <<>>
  /\ loadingRef' = FALSE
  /\ loadCalls' = Tail(loadCalls)
  /\ treeTrace' = Quiet("loadRootRejects", FALSE)
  /\ UNCHANGED <<platform, fs, rootPath, expandedDirs, undoStack, treeToast>>
  /\ UNCHANGED treeOps
  /\ UNCHANGED outsideTree

\* refresh(): lines 165-199
refresh ==
  /\ tree' = Refreshed(platform, fs, rootPath, expandedDirs, tree)
  /\ treeTrace' = Quiet("refresh", TRUE)
  /\ UNCHANGED <<platform, fs, rootPath, expandedDirs, loadingRef, loadCalls,
                 undoStack, treeToast>>
  /\ UNCHANGED treeOps
  /\ UNCHANGED outsideTree

\* createFile(dirPath, fileName): lines 202-231
createFile(dirPath, fileName) ==
  /\ dirPath # NullPath
  /\ LET fullPath == JoinPath(dirPath, fileName)
         loc == Locate(platform, fullPath)
     IN IF loc \in DOMAIN fs
        THEN /\ treeToast' = <<"File already exists">>
             /\ treeTrace' = Quiet("createFile", FALSE)
             /\ UNCHANGED <<fs, tree, undoStack>>
        ELSE IF ~CanWrite(fs, loc)
        THEN /\ treeToast' = <<"Failed to create file">>
             /\ treeTrace' = Quiet("createFile", FALSE)
             /\ UNCHANGED <<fs, tree, undoStack>>
        ELSE /\ fs' = Written(fs, loc, NewFileText)
             /\ tree' = Refreshed(platform, fs', rootPath, expandedDirs, tree)
             /\ undoStack' = pushUndo(undoStack,
                               UndoAction(<<"Create">> \o fileName, "remove",
                                          fullPath, "none"))
             /\ treeToast' = <<"File created">>
             /\ treeTrace' = [Quiet("createFile", TRUE) EXCEPT
                                !.dir = dirPath,
                                !.listing = Listing(platform, fs, dirPath),
                                !.stack = undoStack,
                                !.path = fullPath,
                                !.ret = fullPath,
                                !.before = fs,
                                !.pushed = TRUE]
  /\ UNCHANGED <<platform, rootPath, expandedDirs, loadingRef, loadCalls>>
  /\ UNCHANGED treeOps
  /\ UNCHANGED outsideTree

\* createFolder(dirPath, folderName): lines 234-251
createFolder(dirPath, folderName) ==
  /\ dirPath # NullPath
  /\ LET loc == Locate(platform, JoinPath(dirPath, folderName))
     IN IF loc \in DOMAIN fs
        THEN /\ treeToast' = <<"Folder already exists">>
             /\ treeTrace' = Quiet("createFolder", FALSE)
             /\ UNCHANGED <<fs, tree>>
        ELSE IF ~CanMkdir(fs, loc)
        THEN /\ treeToast' = <<"Failed to create folder">>
             /\ treeTrace' = Quiet("createFolder", FALSE)
             /\ UNCHANGED <<fs, tree>>
        ELSE /\ fs' = MadeDir(fs, loc)
             /\ tree' = Refreshed(platform, fs', rootPath, expandedDirs, tree)
             /\ treeToast' = <<"Folder created">>
             /\ treeTrace' = Quiet("createFolder", TRUE)
  /\ UNCHANGED <<platform, rootPath, expandedDirs, loadingRef, loadCalls, undoStack>>
  /\ UNCHANGED treeOps
  /\ UNCHANGED outsideTree

\* deleteEntry(entryPath): lines 254-289
deleteEntry(entryPath) ==
  /\ LET loc == Locate(platform, entryPath)
     IN IF ~CanRemove(fs, loc, TRUE)
        THEN /\ treeToast' = <<"Failed to delete">>
             /\ treeTrace' = Quiet("deleteEntry", FALSE)
             /\ UNCHANGED <<fs, tree, undoStack>>
        ELSE /\ fs' = Removed(fs, loc)
             /\ tree' = Refreshed(platform, fs', rootPath, expandedDirs, tree)
             /\ undoStack' =
                  IF CanReadText(fs, loc)
                  THEN pushUndo(undoStack,
                         UndoAction(<<"Delete">> \o fileNameFrom(entryPath),
                                    "write", entryPath, fs[loc].content))
                  ELSE undoStack
             /\ treeToast' = <<"Deleted - Ctrl+Z to undo">>
             /\ treeTrace' = [Quiet("deleteEntry", TRUE) EXCEPT
                                !.stack = undoStack,
                                !.path = entryPath,
                                !.before = fs,
                                !.pushed = CanReadText(fs, loc)]
  /\ UNCHANGED <<platform, rootPath, expandedDirs, loadingRef, loadCalls>>
  /\ UNCHANGED treeOps
  /\ UNCHANGED outsideTree

\* oldPath.includes("/") ? "/" : "\\"
SeparatorOf(path) ==
  IF \E i \in DOMAIN path : path[i] = "/" THEN "/" ELSE "\\"

\* position of the last token x of a path at or before i, 0 when none
RECURSIVE LastIndexOf(_, _, _)
LastIndexOf(path, x, i) ==
  IF i = 0 THEN 0
  ELSE IF path[i] = x THEN i
  ELSE LastIndexOf(path, x, i - 1)

\* the new path of renameEntry, lines 294-297: oldPath split at sep, its
\* last part dropped, the parts joined by sep, then sep and newName
RenamedPath(oldPath, newName) ==
  LET sep == SeparatorOf(oldPath)
      k == LastIndexOf(oldPath, sep, Len(oldPath))
  IN IF k = 0 THEN <<sep>> \o newName
     ELSE Slice(oldPath, 1, k) \o newName

\* renameEntry(oldPath, newName): lines 292-320
renameEntry(oldPath, newName) ==
  /\ LET newPath == RenamedPath(oldPath, newName)
         from == Locate(platform, oldPath)
         to == Locate(platform, newPath)
     IN IF ~CanRename(platform, fs, from, to)
        THEN /\ treeToast' = <<"Failed to rename">>
             /\ treeTrace' = Quiet("renameEntry", FALSE)
             /\ UNCHANGED <<fs, tree, undoStack>>
        ELSE /\ fs' = Renamed(fs, from, to)
             /\ tree' = Refreshed(platform, fs', rootPath, expandedDirs, tree)
             /\ undoStack' = pushUndo(undoStack,
                               RenameBack(<<"Rename">> \o fileNameFrom(oldPath)
                                            \o <<"->">> \o newName,
                                          newPath, oldPath))
             /\ treeToast' = <<"Renamed - Ctrl+Z to undo">>
             /\ treeTrace' = [Quiet("renameEntry", TRUE) EXCEPT
                                !.stack = undoStack,
                                !.path = oldPath,
                                !.ret = newPath,
                                !.before = fs,
                                !.pushed = TRUE]
  /\ UNCHANGED <<platform, rootPath, expandedDirs, loadingRef, loadCalls>>
  /\ UNCHANGED treeOps
  /\ UNCHANGED outsideTree

\* whether execute of an undo action resolves, and the filesystem it leaves
CanExecute(pf, fsx, action) ==
  IF action.kind = "remove"
  THEN CanRemove(fsx, Locate(pf, action.path), FALSE)
  ELSE IF action.kind = "rename"
  THEN CanRename(pf, fsx, Locate(pf, action.path), Locate(pf, action.target))
  ELSE CanWrite(fsx, Locate(pf, action.path))

Executed(pf, fsx, action) ==
  IF action.kind = "remove"
  THEN Removed(fsx, Locate(pf, action.path))
  ELSE IF action.kind = "rename"
  THEN Renamed(fsx, Locate(pf, action.path), Locate(pf, action.target))
  ELSE Written(fsx, Locate(pf, action.path), action.content)

\* the name an operation takes in the trace once undo has followed it
UndoneName(op) ==
  IF op = "createFile" THEN "createFile;undo"
  ELSE IF op = "deleteEntry" THEN "deleteEntry;undo"
  ELSE "renameEntry;undo"

\* undo(): lines 323-335
undoKeepsFailed ==
  /\ IF undoStack = <<>>
     THEN /\ treeToast' = <<"Nothing to undo">>
          /\ treeTrace' = Quiet("undo", FALSE)
          /\ UNCHANGED <<fs, tree, undoStack>>
     ELSE LET action == undoStack[Len(undoStack)]
          IN IF CanExecute(platform, fs, action)
             THEN /\ undoStack' = Front(undoStack)
                  /\ fs' = Executed(platform, fs, action)
                  /\ tree' = Refreshed(platform, fs', action.root,
                                       action.expanded, tree)
                  /\ treeToast' = <<"Undone">> \o action.label
                  /\ treeTrace' = Quiet("undo", TRUE)
             ELSE /\ treeToast' = <<"Undo failed">>
                  /\ treeTrace' = Quiet("undo", FALSE)
                  /\ UNCHANGED <<fs, tree, undoStack>>
  /\ UNCHANGED <<platform, rootPath, expandedDirs, loadingRef, loadCalls>>
  /\ UNCHANGED treeOps
  /\ UNCHANGED outsideTree
undo ==
  /\ IF undoStack = <<>>
     THEN /\ treeToast' = <<"Nothing to undo">>
          /\ treeTrace' = Quiet("undo", FALSE)
          /\ UNCHANGED <<fs, tree, undoStack>>
     ELSE LET action == undoStack[Len(undoStack)]
          IN /\ undoStack' = Front(undoStack)
             /\ IF CanExecute(platform, fs, action)
                THEN /\ fs' = Executed(platform, fs, action)
                     /\ tree' = Refreshed(platform, fs', action.root,
                                          action.expanded, tree)
                     /\ treeToast' = <<"Undone">> \o action.label
                     /\ treeTrace' =
                          IF /\ treeTrace.op \in {"createFile", "deleteEntry",
                                                  "renameEntry"}
                             /\ treeTrace.ok
                             /\ treeTrace.pushed
                          THEN [treeTrace EXCEPT !.op = UndoneName(treeTrace.op)]
                          ELSE Quiet("undo", TRUE)
                ELSE /\ treeToast' = <<"Undo failed">>
                     /\ treeTrace' = Quiet("undo", FALSE)
                     /\ UNCHANGED <<fs, tree>>
  /\ UNCHANGED <<platform, rootPath, expandedDirs, loadingRef, loadCalls>>
  /\ UNCHANGED treeOps
  /\ UNCHANGED outsideTree

\* The file tree worked on one diagram file of the root, which is how the
\* undo stack reaches its cap: the operations the tree view offers on the
\* root and on the entries it shows.
UndoNext ==
  \/ \E d \in LoadDirs : loadRoot(d)
  \/ loadRootResolves
  \/ loadRootRejects
  \/ refresh
  \/ createFile(rootPath, FileA)
  \/ createFolder(rootPath, FolderSub)
  \/ \E q \in TreePaths(tree) : deleteEntry(q)
  \/ undo

\* loadChildren of toggleDir, lines 138-151: whether its listings resolve,
\* and the tree it returns
RECURSIVE CanLoadChildren(_, _, _, _)
CanLoadChildren(pf, fsx, entries, dirPath) ==
  \A i \in DOMAIN entries :
    LET entry == entries[i]
    IN IF entry.path = dirPath /\ entry.isDirectory /\ ~entry.children.loaded
       THEN CanReadDir(pf, fsx, entry.path)
       ELSE entry.children.loaded =>
              CanLoadChildren(pf, fsx, entry.children.items, dirPath)

RECURSIVE loadChildrenAlways(_, _, _, _)
loadChildrenAlways(pf, fsx, entries, dirPath) ==
  [i \in DOMAIN entries |->
     LET entry == entries[i]
     IN IF entry.path = dirPath /\ entry.isDirectory
        THEN [entry EXCEPT !.children =
                Loaded(readDirectory(pf, fsx, entry.path))]
        ELSE IF entry.children.loaded
        THEN [entry EXCEPT !.children =
                Loaded(loadChildrenAlways(pf, fsx, entry.children.items, dirPath))]
        ELSE entry]

RECURSIVE loadChildren(_, _, _, _)
loadChildren(pf, fsx, entries, dirPath) ==
  [i \in DOMAIN entries |->
     LET entry == entries[i]
     IN IF entry.path = dirPath /\ entry.isDirectory /\ ~entry.children.loaded
        THEN [entry EXCEPT !.children =
                Loaded(readDirectory(pf, fsx, entry.path))]
        ELSE IF entry.children.loaded
        THEN [entry EXCEPT !.children =
                Loaded(loadChildren(pf, fsx, entry.children.items, dirPath))]
        ELSE entry]

\* whether loadChildren calls readDirectory: it reaches, through children
\* that are loaded, a directory of that path whose children are not
RECURSIVE ListsChildren(_, _)
ListsChildren(entries, dirPath) ==
  \E i \in DOMAIN entries :
    LET entry == entries[i]
    IN IF entry.path = dirPath /\ entry.isDirectory /\ ~entry.children.loaded
       THEN TRUE
       ELSE entry.children.loaded /\ ListsChildren(entry.children.items, dirPath)

\* toggleDir(dirPath): lines 127-162.  The trace keeps the directory it was
\* given (dir) and the directory it listed, if it listed one (path).
toggleDir(dirPath) ==
  /\ IF dirPath \in expandedDirs
     THEN /\ expandedDirs' = expandedDirs \ {dirPath}
          /\ UNCHANGED tree
          /\ treeTrace' = [Quiet("toggleDir", TRUE) EXCEPT !.dir = dirPath]
     ELSE /\ expandedDirs' = expandedDirs \cup {dirPath}
          /\ tree' = IF CanLoadChildren(platform, fs, tree, dirPath)
                      THEN loadChildren(platform, fs, tree, dirPath)
                      ELSE tree
          /\ treeTrace' = [Quiet("toggleDir", TRUE) EXCEPT
                             !.dir = dirPath,
                             !.path = IF ListsChildren(tree, dirPath)
                                      THEN dirPath ELSE NullPath]
  /\ UNCHANGED <<platform, fs, rootPath, loadingRef, loadCalls, undoStack,
                 treeToast>>
  /\ UNCHANGED treeOps
  /\ UNCHANGED outsideTree

\* another program removes an entry of the filesystem
ExternalRemove(loc) ==
  /\ loc \in DOMAIN fs
  /\ fs' = Removed(fs, loc)
  /\ treeTrace' = Quiet("ExternalRemove", TRUE)
  /\ UNCHANGED <<platform, rootPath, tree, expandedDirs, loadingRef, loadCalls,
                 undoStack, treeToast>>
  /\ UNCHANGED treeOps
  /\ UNCHANGED outsideTree

\* what another program may remove: the directory or its folder
ExternalTargets == {<<Root>>, <<Root, FolderSub>>}

\* undo actions held at once in the working directory explored
MaxStack == 1

\* a working directory: a diagram file, an empty one, a folder with a
\* diagram file that is no text, a hidden folder and a file of another kind
WorkDir ==
  [l \in {<<Root>>, <<Root, <<".git">>>>, <<Root, <<"n.txt">>>>,
          <<Root, FileA>>, <<Root, FileB>>, <<Root, FolderSub>>,
          <<Root, FolderSub, FileA>>} |->
     IF l \in {<<Root>>, <<Root, <<".git">>>>, <<Root, FolderSub>>} THEN DirNode
     ELSE IF l = <<Root, <<"n.txt">>>> THEN FileNode("notes")
     ELSE IF l = <<Root, FileA>> THEN FileNode("old-diagram")
     ELSE IF l = <<Root, FileB>> THEN FileNode("")
     ELSE FileNode(NotText)]

\* the roots the folder picker may return: the directory, its folder written
\* with a slash, and a directory that does not exist
WorkRoots == {Root, Root \o <<"/">> \o FolderSub, MissingDir}

\* the paths of the directories the tree shows
RECURSIVE DirPaths(_)
DirPaths(entries) ==
  UNION {(IF entries[i].isDirectory THEN {entries[i].path} ELSE {})
           \cup DirPaths(entries[i].children.items) : i \in DOMAIN entries}

WorkInit ==
  /\ platform \in Platforms
  /\ fs = WorkDir
  /\ rootPath = NullPath
  /\ tree = <<>>
  /\ expandedDirs = {}
  /\ loadingRef = FALSE
  /\ loadCalls = <<>>
  /\ treeOps = <<>>
  /\ undoStack = <<>>
  /\ treeToast = <<>>
  /\ treeTrace = Quiet("mount", TRUE)

\* The file tree over a working directory, from the first root picked: the
\* operations the tree view offers on the root and on the entries it shows,
\* with another program removing entries.
TreeNext ==
  \/ rootPath = NullPath /\ \E d \in WorkRoots : loadRoot(d)
  \/ loadRootResolves
  \/ loadRootRejects
  \/ refresh
  \/ \E q \in DirPaths(tree) : toggleDir(q)
  \/ Len(undoStack) < MaxStack /\ createFile(rootPath, FileA)
  \/ createFolder(rootPath, FolderSub)
  \/ Len(undoStack) < MaxStack /\ \E q \in TreePaths(tree) : deleteEntry(q)
  \/ Len(undoStack) < MaxStack /\
       \E q \in TreePaths(tree) : renameEntry(q, FileB)
  \/ undo
  \/ \E loc \in ExternalTargets : ExternalRemove(loc)

\* calls of refresh, toggleDir and createFile suspended at once
MaxTreeOps == 2

\* A call of refresh, toggleDir or createFile suspended at an await.  It
\* keeps what its closure captured when it was called: rootPath and
\* expandedDirs (through refresh) and the tree (of toggleDir).
TreeOp(kind, pc, dir, name) ==
  [kind |-> kind, pc |-> pc, dir |-> dir, name |-> name,
   root |-> rootPath, expanded |-> expandedDirs, snap |-> tree]

\* refresh() up to its listing: lines 165-170
refreshCalled ==
  /\ Len(treeOps) < MaxTreeOps
  /\ treeOps' = IF rootPath = NullPath THEN treeOps
                ELSE Append(treeOps, TreeOp("refresh", "list", NullPath, <<>>))
  /\ UNCHANGED <<platform, fs, rootPath, tree, expandedDirs, loadingRef,
                 loadCalls, undoStack, treeToast, treeTrace>>
  /\ UNCHANGED outsideTree

\* the listings of a refresh settle: lines 170-198
refreshSettles(k) ==
  /\ k \in DOMAIN treeOps
  /\ treeOps[k].kind = "refresh"
  /\ tree' = Refreshed(platform, fs, treeOps[k].root, treeOps[k].expanded, tree)
  /\ treeOps' = RemoveAt(treeOps, k)
  /\ treeTrace' = Quiet("refreshSettles", CanReadDir(platform, fs, treeOps[k].root))
  /\ UNCHANGED <<platform, fs, rootPath, expandedDirs, loadingRef, loadCalls,
                 undoStack, treeToast>>
  /\ UNCHANGED outsideTree

\* toggleDir(dirPath) up to its listing: lines 129-154
toggleDirCalled(dirPath) ==
  /\ IF dirPath \in expandedDirs
     THEN /\ expandedDirs' = expandedDirs \ {dirPath}
          /\ UNCHANGED treeOps
     ELSE /\ Len(treeOps) < MaxTreeOps
          /\ expandedDirs' = expandedDirs \cup {dirPath}
          /\ treeOps' = Append(treeOps, TreeOp("toggleDir", "list", dirPath, <<>>))
  /\ UNCHANGED <<platform, fs, rootPath, tree, loadingRef, loadCalls, undoStack,
                 treeToast, treeTrace>>
  /\ UNCHANGED outsideTree

\* loadChildren of a toggleDir settles: lines 153-158, over the tree the
\* call captured
toggleDirSettles(k) ==
  /\ k \in DOMAIN treeOps
  /\ treeOps[k].kind = "toggleDir"
  /\ tree' = IF CanLoadChildren(platform, fs, treeOps[k].snap, treeOps[k].dir)
             THEN loadChildren(platform, fs, treeOps[k].snap, treeOps[k].dir)
             ELSE tree
  /\ treeOps' = RemoveAt(treeOps, k)
  /\ treeTrace' = Quiet("toggleDirSettles",
                        CanLoadChildren(platform, fs, treeOps[k].snap,
                                        treeOps[k].dir))
  /\ UNCHANGED <<platform, fs, rootPath, expandedDirs, loadingRef, loadCalls,
                 undoStack, treeToast>>
  /\ UNCHANGED outsideTree

\* createFile(dirPath, fileName) up to its first await: lines 203-206
createFileCalled(dirPath, fileName) ==
  /\ dirPath # NullPath
  /\ Len(treeOps) < MaxTreeOps
  /\ treeOps' = Append(treeOps, TreeOp("createFile", "exists", dirPath, fileName))
  /\ UNCHANGED <<platform, fs, rootPath, tree, expandedDirs, loadingRef,
                 loadCalls, undoStack, treeToast, treeTrace>>
  /\ UNCHANGED outsideTree

\* exists(fullPath) of a createFile resolves: lines 207-210
createFileChecks(k) ==
  /\ k \in DOMAIN treeOps
  /\ treeOps[k].kind = "createFile"
  /\ treeOps[k].pc = "exists"
  /\ IF Locate(platform, JoinPath(treeOps[k].dir, treeOps[k].name)) \in DOMAIN fs
     THEN /\ treeToast' = <<"File already exists">>
          /\ treeTrace' = Quiet("createFile", FALSE)
          /\ treeOps' = RemoveAt(treeOps, k)
     ELSE /\ treeOps' = [treeOps EXCEPT ![k].pc = "write"]
          /\ UNCHANGED <<treeToast, treeTrace>>
  /\ UNCHANGED <<platform, fs, rootPath, tree, expandedDirs, loadingRef,
                 loadCalls, undoStack>>
  /\ UNCHANGED outsideTree

\* writeTextFile of a createFile settles, and the call runs to its end:
\* lines 211-229.  The trace keeps whether the file was there (listing).
createFileWrites(k) ==
  /\ k \in DOMAIN treeOps
  /\ treeOps[k].kind = "createFile"
  /\ treeOps[k].pc = "write"
  /\ LET op == treeOps[k]
         fullPath == JoinPath(op.dir, op.name)
         loc == Locate(platform, fullPath)
     IN IF ~CanWrite(fs, loc)
        THEN /\ treeToast' = <<"Failed to create file">>
             /\ treeTrace' = Quiet("createFile", FALSE)
             /\ UNCHANGED <<fs, tree, undoStack>>
        ELSE /\ fs' = Written(fs, loc, NewFileText)
             /\ tree' = Refreshed(platform, fs', op.root, op.expanded, tree)
             /\ undoStack' = pushUndo(undoStack,
                               [UndoAction(<<"Create">> \o op.name, "remove",
                                           fullPath, "none")
                                  EXCEPT !.root = op.root,
                                         !.expanded = op.expanded])
             /\ treeToast' = <<"File created">>
             /\ treeTrace' = [Quiet("createFile", TRUE) EXCEPT
                                !.dir = op.dir,
                                !.listing = Listing(platform, fs, op.dir),
                                !.stack = undoStack,
                                !.path = fullPath,
                                !.ret = fullPath,
                                !.before = fs,
                                !.pushed = TRUE]
  /\ treeOps' = RemoveAt(treeOps, k)
  /\ UNCHANGED <<platform, rootPath, expandedDirs, loadingRef, loadCalls>>
  /\ UNCHANGED outsideTree

FolderX == <<"x">>

\* a directory with two folders, one of them holding a folder
DeepDir ==
  [l \in {<<Root>>, <<Root, FolderSub>>, <<Root, FolderSub, FileA>>,
          <<Root, FolderSub, FolderX>>, <<Root, FolderSub, FolderX, FileB>>,
          <<Root, FolderX>>, <<Root, FileB>>} |->
     IF l \in {<<Root, FolderSub, FileA>>, <<Root, FolderSub, FolderX, FileB>>,
               <<Root, FileB>>}
     THEN FileNode("old-diagram") ELSE DirNode]

\* the roots picked: the directory and its folder
DeepRoots == {Root, Root \o <<"/">> \o FolderSub}

DeepInit ==
  /\ platform \in Platforms
  /\ fs = DeepDir
  /\ rootPath = NullPath
  /\ tree = <<>>
  /\ expandedDirs = {}
  /\ loadingRef = FALSE
  /\ loadCalls = <<>>
  /\ treeOps = <<>>
  /\ undoStack = <<>>
  /\ treeToast = <<>>
  /\ treeTrace = Quiet("mount", TRUE)

\* a directory with two folders and a diagram file
FlatDir ==
  [l \in {<<Root>>, <<Root, FolderSub>>, <<Root, FolderX>>, <<Root, FileB>>} |->
     IF l = <<Root, FileB>> THEN FileNode("old-diagram") ELSE DirNode]

AsyncInit ==
  /\ platform \in Platforms
  /\ fs = FlatDir
  /\ rootPath = NullPath
  /\ tree = <<>>
  /\ expandedDirs = {}
  /\ loadingRef = FALSE
  /\ loadCalls = <<>>
  /\ treeOps = <<>>
  /\ undoStack = <<>>
  /\ treeToast = <<>>
  /\ treeTrace = Quiet("mount", TRUE)

\* The file tree with its calls suspended at their awaits: the directory is
\* picked as root and then its folder, while refresh and toggleDir calls are
\* in flight.
AsyncNext ==
  \/ rootPath = NullPath /\ loadRoot(Root)
  \/ rootPath = Root /\ loadRoot(Root \o <<"/">> \o FolderSub)
  \/ loadRootResolves
  \/ refreshCalled
  \/ \E k \in DOMAIN treeOps : refreshSettles(k)
  \/ \E q \in DirPaths(tree) : toggleDirCalled(q)
  \/ \E k \in DOMAIN treeOps : toggleDirSettles(k)

\* The same with createFile calls in flight instead.
CreateNext ==
  \/ rootPath = NullPath /\ loadRoot(Root)
  \/ rootPath = Root /\ loadRoot(Root \o <<"/">> \o FolderSub)
  \/ loadRootResolves
  \/ \E name \in {FileA, FileB} : createFileCalled(rootPath, name)
  \/ \E k \in DOMAIN treeOps : createFileChecks(k)
  \/ \E k \in DOMAIN treeOps : createFileWrites(k)
  \/ createFolder(rootPath, FolderSub)

\* The same directory with every call run to its end before the next.
DeepNext ==
  \/ \E d \in DeepRoots : loadRoot(d)
  \/ loadRootResolves
  \/ refresh
  \/ \E q \in DirPaths(tree) : toggleDir(q)
  \/ \E loc \in {<<Root>>, <<Root, FolderSub, FolderX>>} : ExternalRemove(loc)

(***************************************************************************)
(* lib/preprocessor.ts applied to families of markup                       *)
(***************************************************************************)

\* the length of the text after the opening delimiter of a node, and the
\* number of lines after the header of a diagram of several lines
MaxBodyLen == 4
MaxLines == 3

GraphHeader == <<"g","r","a","p","h">>
FlowchartTD == <<"f","l","o","w","c","h","a","r","t"," ","T","D">>
NewLine == <<"\n">>
Quote == <<"\"">>

Markup(family, text, expect) == [family |-> family, text |-> text, expect |-> expect]

\* flow diagrams with one node line: an identifier, an opening delimiter and
\* every text over the delimiters, the quote and a character to quote
BodyAlphabet == {"A", "[", "]", "(", ")", ";", "\""}
Bodies == UNION {[1..n -> BodyAlphabet] : n \in 0..MaxBodyLen}
FlowInputs ==
  {Markup("flow", GraphHeader \o NewLine \o <<"A", o>> \o body, <<>>) :
     o \in {"[", "("}, body \in Bodies}

\* a node of shape sh with the given label
Node(sh, label) == <<"A">> \o ShapeOpen(sh) \o label \o ShapeClose(sh)

\* flow diagrams whose node label is already wrapped in double quotes
QuotedTexts ==
  { <<"o","k">>,
    <<"a"," ","b">>,
    <<"x",";","y">>,
    <<"f","(","x",";","y",")">>,
    <<"A","(",";",")">>,
    <<"B","[",";","]">>,
    <<"C","{",";","}">> }
QuotedInputs ==
  {Markup("quoted",
          GraphHeader \o NewLine \o Node(Shapes[k], Quote \o q \o Quote),
          GraphHeader \o NewLine \o Node(Shapes[k], Quote \o q \o Quote)) :
     k \in DOMAIN Shapes, q \in QuotedTexts}

\* flow diagrams whose node label is not quoted and holds a character of
\* NEEDS_QUOTING, with the markup the label in quoted form gives
TriggerLabels ==
  { <<"x",";","y">>,
    <<"a","'","b">>,
    <<"a","&","b">>,
    <<"a","#","b">>,
    <<"a","\"","b">>,
    <<"s","a","y"," ","(","h","i",")">> }
TriggerInputs ==
  {Markup("trigger",
          FlowchartTD \o NewLine \o Node(Shapes[k], label) \o NewLine,
          FlowchartTD \o NewLine
            \o Node(Shapes[k], Quote \o EscapeQuotes(label) \o Quote) \o NewLine) :
     k \in DOMAIN Shapes, label \in TriggerLabels}

\* markup of other diagram types, and markup with no substantive line, each
\* with node-like text the flow rules would rewrite
Preambles ==
  { <<>>, NewLine, <<" ", "\n">>, <<"%","%"," ","A","(",";",")","\n">> }
OtherHeaders ==
  { <<"p","i","e">>,
    <<" ","s","e","q","u","e","n","c","e","D","i","a","g","r","a","m">>,
    <<"g","i","t","G","r","a","p","h">>,
    <<"c","l","a","s","s","D","i","a","g","r","a","m">> }
NodeLines ==
  { <<"A","(",";",")">>,
    <<"A","[","x",";","y","]">>,
    <<"A","{","{","a","&","b","}","}">>,
    <<"g","r","a","p","h"," ","T","D","\n","A","(",";",")">> }
NonFlowInputs ==
  {Markup("nonflow", pre \o h \o NewLine \o l, pre \o h \o NewLine \o l) :
     pre \in Preambles, h \in OtherHeaders, l \in NodeLines}
  \cup {Markup("nonflow", pre, pre) : pre \in Preambles}
  \cup {Markup("nonflow", t, t) :
          t \in {<<"%","%"," ","A","(",";",")">>,
                 <<" ","\n","%","%","A","[","x",";","y","]","\n">>}}

\* flow diagrams of several lines: blank lines, a comment, a structural
\* line, nodes the rules rewrite and nodes they leave, a line ending in a
\* carriage return
LineChoices ==
  { <<>>,
    <<"%","%"," ","A","(",";",")">>,
    <<"e","n","d">>,
    <<"A","(",";",")">>,
    <<"B","[","x","]"," ","-","-",">"," ","C","{","a","\"","b","}">>,
    <<"A","[","x",";","y","]","\r">> }
LineLists == UNION {[1..n -> LineChoices] : n \in 0..MaxLines}
LinesInputs ==
  {Markup("lines", JoinLines(<<GraphHeader>> \o ls), <<>>) : ls \in LineLists}

\* flow diagrams with a node line whose identifier begins with a structural
\* keyword, each with the text that quoting its label gives
PrefixLines ==
  { <<<<"e","n","d","p","o","i","n","t","[","a"," ","(","b",")","]">>,
       <<"e","n","d","p","o","i","n","t","[","\"","a"," ","(","b",")","\"","]">>>>,
    <<<<"c","l","i","c","k","a","b","l","e","[","x",";","y","]">>,
       <<"c","l","i","c","k","a","b","l","e","[","\"","x",";","y","\"","]">>>>,
    <<<<"d","i","r","e","c","t","i","o","n","s","[","p"," ","&"," ","q","]">>,
       <<"d","i","r","e","c","t","i","o","n","s","[","\"","p"," ","&"," ","q","\"","]">>>> }
PrefixInputs ==
  {Markup("prefix", FlowchartTD \o NewLine \o l[1], FlowchartTD \o NewLine \o l[2]) :
     l \in PrefixLines}

\* flow diagrams with one structural statement, which SKIP_LINE exempts
KeywordLines ==
  { <<"s","u","b","g","r","a","p","h"," ","S"," ","(","x",")">>,
    <<"e","n","d">>,
    <<"d","i","r","e","c","t","i","o","n"," ","L","R">>,
    <<"c","l","i","c","k"," ","A"," ","c","b","(","x",")">>,
    <<"c","l","a","s","s"," ","A"," ","b",";">>,
    <<"c","l","a","s","s","D","e","f"," ","b"," ","f","i","l","l",":","#","f","9","f",";">>,
    <<"s","t","y","l","e"," ","A"," ","f","i","l","l",":","#","f","f","f",";">>,
    <<"l","i","n","k","S","t","y","l","e"," ","0"," ","s","t","r","o","k","e",":","#","f","0","0",";">> }
KeywordInputs ==
  {Markup("keyword", FlowchartTD \o NewLine \o l, FlowchartTD \o NewLine \o l) :
     l \in KeywordLines}

PreInputs ==
  FlowInputs \cup QuotedInputs \cup TriggerInputs \cup NonFlowInputs
    \cup LinesInputs \cup PrefixInputs \cup KeywordInputs

PreInit ==
  /\ ppSource \in PreInputs
  /\ ppOnce = <<>>
  /\ ppTwice = <<>>
  /\ ppStage = "input"

\* the markup goes through preprocessMermaid, as renderDiagram passes it
PreprocessOnce ==
  /\ ppStage = "input"
  /\ ppOnce' = preprocessMermaid(ppSource.text)
  /\ ppStage' = "once"
  /\ UNCHANGED <<ppSource, ppTwice>>
  /\ UNCHANGED outsidePre

\* and its output goes through preprocessMermaid again
PreprocessAgain ==
  /\ ppStage = "once"
  /\ ppTwice' = preprocessMermaid(ppOnce)
  /\ ppStage' = "twice"
  /\ UNCHANGED <<ppSource, ppOnce>>
  /\ UNCHANGED outsidePre

PreNext ==
  \/ PreprocessOnce
  \/ PreprocessAgain

(***************************************************************************)
(* The specifications: each part with the other parts at rest              *)
(***************************************************************************)

RenderIdle ==
  /\ code = <<>>
  /\ theme = "light"
  /\ timerArmed = FALSE
  /\ renderIdRef = 0
  /\ svgHtml = NoSvg
  /\ errorMsg = NullError
  /\ appError = NullError
  /\ inflight = {}
  /\ domArtifacts = {}
  /\ renderLog = <<>>
  /\ mounted = TRUE

StoreIdle ==
  /\ lsTabs = ItemAbsent(EmptySession)
  /\ lsRecent = ItemAbsent(<<>>)
  /\ StorageIdle

TabsIdle ==
  /\ tabs = Mounted(EmptySession, 1).tabs
  /\ activeId = Mounted(EmptySession, 1).activeId
  /\ nextId = Mounted(EmptySession, 1).nextId
  /\ session = 1
  /\ saveTimer = FALSE
  /\ tabOps = <<>>
  /\ tabFault = FALSE
  /\ disk = [q \in TabPaths |-> "absent"]
  /\ tabTrace = <<"mount", 0, NoToast>>

TreeIdle ==
  /\ platform = "win"
  /\ fs = BareRoot
  /\ rootPath = NullPath
  /\ tree = <<>>
  /\ expandedDirs = {}
  /\ loadingRef = FALSE
  /\ loadCalls = <<>>
  /\ treeOps = <<>>
  /\ undoStack = <<>>
  /\ treeToast = <<>>
  /\ treeTrace = Quiet("mount", TRUE)

PreIdle ==
  /\ ppSource = Markup("nonflow", <<>>, <<>>)
  /\ ppOnce = <<>>
  /\ ppTwice = <<>>
  /\ ppStage = "input"

ViewIdle ==
  /\ zoom = FracOf(1)
  /\ zoomShown = FracOf(1)
  /\ pan = <<0, 0>>
  /\ isPanning = FALSE
  /\ panStartRef = <<0, 0>>
  /\ panOffsetRef = <<0, 0>>
  /\ viewTrace = ViewTraced("mount", 0, 0, NoBox)

\* the render scheduler
InitRender ==
  /\ RenderInit /\ StoreIdle /\ recentCalls = NoCalls /\ TabsIdle /\ TreeIdle
  /\ PreIdle /\ ViewIdle
SpecRender == InitRender /\ [][RenderNext]_vars

\* the tab store, from what an earlier run left in the persistence layer
InitTabs ==
  /\ TabsInit /\ recentCalls = NoCalls /\ RenderIdle /\ TreeIdle /\ PreIdle
  /\ ViewIdle

\* the render scheduler with its timer: a change is made only while a
\* dispatch is left for it, the timer fires when it is left pending, and the
\* component may unmount
DebounceNext ==
  \/ renderIdRef < MaxRenders /\ \E c \in RenderMarkups : ChangeCode(c)
  \/ renderIdRef < MaxRenders /\ \E t \in Themes : ChangeTheme(t)
  \/ TimerFires
  \/ \E r \in inflight : RenderResolves(r)
  \/ \E r \in inflight : \E err \in RenderThrows : RenderRejects(r, err)
  \/ Unmount
SpecDebounce == InitRender /\ [][DebounceNext]_vars /\ WF_vars(TimerFires)

\* the tab store under the operations on documents
SpecTabs == InitTabs /\ [][TabsNext]_vars

\* the session: the tab store, its auto-save and restarts of the process
SpecSession == InitTabs /\ [][SessionNext]_vars

\* the tab store under selections of any id
SpecSelect == InitTabs /\ [][SelectNext]_vars
SpecClose == InitTabs /\ [][CloseNext]_vars

\* addRecentFile calls explored under a storage that can refuse writes
MaxStoreAdds == 2

\* the store under a storage that can refuse writes: edits of the active
\* document and the auto-save timer, the recent files, the preferences and restarts of the process
StoreNext ==
  \/ \E c \in EditCodes : setActiveCode(c)
  \/ saveTimerFires
  \/ Restart
  \/ recentCalls.adds < MaxStoreAdds /\
       \E q \in Listed(loadRecentFiles) \cup Unlisted(loadRecentFiles) :
         AddRecentFileCall(q)
  \/ ClearRecentFilesCall
  \/ \E prefs \in PreferenceChoices : SavePreferencesCall(prefs)
  \/ StorageFails
  \/ StorageRecovers
InitStore ==
  /\ SessionInit /\ RecentInit
  /\ lsPrefs \in PersistedPreferences /\ setItemThrows = FALSE
  /\ RenderIdle /\ TreeIdle /\ PreIdle /\ ViewIdle
SpecStore == InitStore /\ [][StoreNext]_vars

\* the recent-files list
InitRecent ==
  /\ RecentInit /\ lsTabs = ItemAbsent(EmptySession) /\ StorageIdle
  /\ RenderIdle /\ TabsIdle /\ TreeIdle /\ PreIdle /\ ViewIdle
SpecRecent == InitRecent /\ [][RecentNext]_vars

\* the file tree and its undo stack
InitUndo ==
  /\ TreeInit /\ StoreIdle /\ recentCalls = NoCalls /\ RenderIdle /\ TabsIdle
  /\ PreIdle /\ ViewIdle
SpecUndo == InitUndo /\ [][UndoNext]_vars

\* the file tree over a working directory
InitTree ==
  /\ WorkInit /\ StoreIdle /\ recentCalls = NoCalls /\ RenderIdle /\ TabsIdle
  /\ PreIdle /\ ViewIdle
SpecTree == InitTree /\ [][TreeNext]_vars

\* the file tree under root loads that overlap
LoadNext ==
  \/ \E d \in WorkRoots : loadRoot(d)
  \/ loadRootResolves
  \/ loadRootRejects
  \/ refresh
  \/ \E q \in DirPaths(tree) : toggleDir(q)
  \/ \E loc \in ExternalTargets : ExternalRemove(loc)
SpecLoad == InitTree /\ [][LoadNext]_vars

\* documents and tree under file operations that can fail: the dialogs name
\* any file, reads and writes resolve or reject, and entries of the listing
\* go away underneath the tree
FailNext ==
  \/ openFile
  \/ \E k \in DOMAIN tabOps : \E q \in TabPaths \cup {NullPath} : openDialogReturns(k, q)
  \/ \E q \in TabPaths : openRecentFile(q)
  \/ \E k \in DOMAIN tabOps : readResolves(k)
  \/ \E k \in DOMAIN tabOps : readRejects(k)
  \/ saveFile
  \/ saveFileAs
  \/ \E k \in DOMAIN tabOps : \E q \in TabPaths \cup {NullPath} : saveDialogReturns(k, q)
  \/ \E k \in DOMAIN tabOps : writeResolves(k)
  \/ \E k \in DOMAIN tabOps : writeRejects(k)
  \/ rootPath = NullPath /\ loadRoot(Root)
  \/ loadRootResolves
  \/ Len(undoStack) < MaxStack /\ createFile(rootPath, FileA)
  \/ createFolder(rootPath, FolderSub)
  \/ Len(undoStack) < MaxStack /\ \E q \in TreePaths(tree) : deleteEntry(q)
  \/ Len(undoStack) < MaxStack /\
       \E q \in TreePaths(tree) : renameEntry(q, FileB)
  \/ \E loc \in ExternalTargets : ExternalRemove(loc)
InitFail ==
  /\ TabsInit /\ recentCalls = NoCalls /\ RenderIdle /\ WorkInit /\ PreIdle
  /\ ViewIdle
SpecFail == InitFail /\ [][FailNext]_vars

\* the file tree over a directory of nested folders, with its calls run to
\* their end and with its calls suspended at their awaits
InitDeep ==
  /\ DeepInit /\ StoreIdle /\ recentCalls = NoCalls /\ RenderIdle /\ TabsIdle
  /\ PreIdle /\ ViewIdle
SpecDeep == InitDeep /\ [][DeepNext]_vars
InitAsync ==
  /\ AsyncInit /\ StoreIdle /\ recentCalls = NoCalls /\ RenderIdle /\ TabsIdle
  /\ PreIdle /\ ViewIdle
SpecAsync == InitAsync /\ [][AsyncNext]_vars
SpecCreate == InitAsync /\ [][CreateNext]_vars

\* the preprocessor
InitPre ==
  /\ PreInit /\ StoreIdle /\ recentCalls = NoCalls /\ RenderIdle /\ TabsIdle
  /\ TreeIdle /\ ViewIdle
SpecPre == InitPre /\ [][PreNext]_vars

\* the viewport
InitView ==
  /\ ViewInit /\ StoreIdle /\ recentCalls = NoCalls /\ RenderIdle /\ TabsIdle
  /\ TreeIdle /\ PreIdle
SpecView == InitView /\ [][ViewNext]_vars
SpecPan == InitView /\ [][PanNext]_vars

(***************************************************************************)
(* Properties of the render scheduler, checked under SpecRender            *)
(***************************************************************************)

\* once the render of the current generation has ended, the stored graphic
\* and error are the ones it produced
C1_LatestShown ==
  (renderIdRef >= 1 /\ renderLog[renderIdRef].kind # "pending") =>
    LET last == renderLog[renderIdRef]
    IN /\ last.kind = "ok" => (svgHtml = last.svg /\ errorMsg = NullError)
       /\ last.kind = "fail" => errorMsg = last.err
       /\ last.kind = "empty" => (svgHtml = NoSvg /\ errorMsg = NullError)

\* a completion of a generation that is not the current one
C1_StaleCompletion ==
  \A r \in inflight :
    (/\ r.id # renderIdRef
     /\ \/ RenderResolves(r)
        \/ \E err \in RenderThrows : RenderRejects(r, err))
    => UNCHANGED <<svgHtml, errorMsg>>

\* C1: generation gating.  For renders dispatched one after the other and
\* any order of completion, once the later one has completed the stored
\* graphic and error are those it produced, also after the earlier one
\* completes; a completion, success or failure, whose generation differs
\* from the current counter changes neither the graphic nor the error.
C1_GenerationGating == []C1_LatestShown /\ [][C1_StaleCompletion]_vars

\* two renders, both successful, the second completed before the first, and
\* the graphic is the second's
C1_Witness ==
  /\ renderIdRef = 2
  /\ Len(renderLog) = 2
  /\ renderLog[1].kind = "ok"
  /\ renderLog[2].kind = "ok"
  /\ renderLog[2].at < renderLog[1].at
  /\ svgHtml = renderLog[2].svg
  /\ svgHtml # renderLog[1].svg

(***************************************************************************)
(* Properties of the tab store, checked under SpecTabs and SpecSession     *)
(***************************************************************************)

\* closeTab on the only open document
C2_CloseOnly ==
  \A id \in TabIds(tabs) :
    (Len(tabs) = 1 /\ closeTab(id)) =>
      /\ Len(tabs') = 1
      /\ tabs'[1].title = Untitled
      /\ tabs'[1].filePath = NullPath
      /\ tabs'[1].code = Template
      /\ tabs'[1].id \notin TabIds(tabs)
      /\ activeId' = tabs'[1].id

\* C2: tab non-emptiness.  In every reachable state of the tab store, from
\* an empty or a non-empty persisted session and under any sequence of
\* addTab, edits, closeTab, selectTab, open and save operations, at least
\* one document is open; closeTab on the only open document leaves exactly
\* one document, a fresh default one (title Untitled, no backing path, the
\* template as content, a new id), and it is the active one.
C2_TabNonEmptiness == [](Len(tabs) >= 1) /\ [][C2_CloseOnly]_vars

\* the only open document has just been closed
C2_Witness ==
  /\ tabTrace[1] = "closeTab"
  /\ tabTrace[2] = 1
  /\ Len(tabs) = 1
  /\ tabs[1].title = Untitled
  /\ tabs[1].code = Template
  /\ activeId = tabs[1].id
  /\ ~tabFault

\* C3: in every reachable state no two open documents have the same
\* non-null backing path, under any sequence and interleaving of openFile,
\* openRecentFile, saveFile, saveFileAs, addTab and closeTab.
C3_UniqueBackingPath ==
  \A i, j \in DOMAIN tabs :
    (i # j /\ tabs[i].filePath # NullPath) => tabs[i].filePath # tabs[j].filePath

\* what a session consists of: the documents with their contents, in order,
\* and which of them is active
SessionView(ts, id) ==
  [docs |-> [i \in DOMAIN ts |->
               <<ts[i].title, ts[i].filePath, ts[i].code>>],
   active |-> IF id \in TabIds(ts) THEN IndexOfId(ts, id) ELSE 1]

\* C6: auto-save loses nothing on crash.  When the process stops at any
\* moment, the session restored at the next start has the same documents,
\* contents and active document as the session in memory had at the stop.
C6_NothingLostOnCrash ==
  [][Restart => SessionView(tabs', activeId') = SessionView(tabs, activeId)]_vars

\* C13: selectTab(id) with an id that matches no open document is a no-op:
\* the active pointer, the active document and the document list are
\* unchanged.
C13_SelectAbsentNoOp ==
  [][\A id \in AbsentIds(tabs) :
       selectTab(id) =>
         /\ activeId' = activeId
         /\ ActiveTabOf(tabs', activeId') = ActiveTabOf(tabs, activeId)
         /\ tabs' = tabs]_vars

(***************************************************************************)
(* Properties of the recent-files list, checked under SpecRecent           *)
(***************************************************************************)

RecentOf(item) == get(item, <<>>)

\* no duplicates, at most MAX_RECENT entries, the last path added first
C4_ListShape ==
  LET r == RecentOf(lsRecent)
  IN /\ \A i, j \in DOMAIN r : i # j => r[i] # r[j]
     /\ Len(r) <= MAX_RECENT
     /\ recentCalls.last # NullPath => (r # <<>> /\ r[1] = recentCalls.last)
     /\ recentCalls.last = NullPath => r = <<>>

\* the list without the entry at the position of q
C4_Others(r, q) ==
  LET k == CHOOSE i \in DOMAIN r : r[i] = q
  IN [i \in 1..(Len(r) - 1) |-> IF i < k THEN r[i] ELSE r[i + 1]]

\* what one call of addRecentFile does to the list
C4_Add ==
  \A q \in RecentPaths :
    AddRecentFileCall(q) =>
      LET old == RecentOf(lsRecent)
          new == RecentOf(lsRecent')
      IN /\ new # <<>>
         /\ new[1] = q
         /\ q \in Listed(old) => Tail(new) = C4_Others(old, q)
         /\ (q \notin Listed(old) /\ Len(old) < MAX_RECENT) => Tail(new) = old
         /\ (q \notin Listed(old) /\ Len(old) = MAX_RECENT) =>
              Tail(new) = Slice(old, 1, MAX_RECENT - 1)

\* C4: the recent-files list.  After any sequence of addRecentFile and
\* clearRecentFiles calls from an empty list, the stored list has no
\* duplicate paths, at most 10 entries, and the path added last as its first
\* entry; adding a listed path moves it to the front and keeps the order of
\* the others; adding an 11th distinct path drops exactly the last entry.
C4_RecentFiles == []C4_ListShape /\ [][C4_Add]_vars

\* a full list, reordered by a repeated path, has taken an 11th path and
\* dropped the oldest
C4_Witness ==
  /\ Len(RecentOf(lsRecent)) = MAX_RECENT
  /\ RecentOf(lsRecent)[1] = RecentPath(MAX_RECENT + 1)
  /\ RecentPath(1) \notin Listed(RecentOf(lsRecent))
  /\ recentCalls.readds >= 1

(***************************************************************************)
(* Properties of the undo stack, checked under SpecUndo                    *)
(***************************************************************************)

\* a successful createFile has been followed by undo
CreateUndone == treeTrace.op = "createFile;undo"

\* C5 as stated: a successful createFile(dir, name) followed by undo()
\* leaves the listing of dir and the undo stack as they were before the
\* create.
C5_CreateUndoRestoresAll ==
  CreateUndone =>
    /\ Listing(platform, fs, treeTrace.dir) = treeTrace.listing
    /\ undoStack = treeTrace.stack

\* C5, amended: a successful createFile(dir, name) followed by undo() leaves
\* the listing of dir as it was before the create; it leaves the undo stack
\* as it was when the stack held fewer than 50 actions, and without its
\* oldest action when it held 50.
C5_CreateUndoWithinCap ==
  CreateUndone =>
    /\ Listing(platform, fs, treeTrace.dir) = treeTrace.listing
    /\ Len(treeTrace.stack) < UndoCap => undoStack = treeTrace.stack
    /\ Len(treeTrace.stack) = UndoCap => undoStack = Tail(treeTrace.stack)

\* a create over a stack that held an action already has been undone
C5_Witness ==
  /\ CreateUndone
  /\ Len(treeTrace.stack) >= 1
  /\ Len(treeTrace.stack) < UndoCap
  /\ undoStack = treeTrace.stack
  /\ [name |-> FileA, isDirectory |-> FALSE] \notin treeTrace.listing
  /\ Listing(platform, fs, treeTrace.dir) = treeTrace.listing

\* one step of the undo stack: it is left alone, or its last action is
\* popped, or an action is pushed and, at the cap, the oldest one dropped
C15_StackStep ==
  \/ undoStack' = undoStack
  \/ undoStack # <<>> /\ undoStack' = Front(undoStack)
  \/ Len(undoStack) < UndoCap /\ Front(undoStack') = undoStack
  \/ /\ Len(undoStack) = UndoCap
     /\ Len(undoStack') = UndoCap
     /\ Front(undoStack') = Tail(undoStack)

\* undo on a stack that holds actions runs the one pushed last
C15_UndoTakesLast ==
  (undo /\ undoStack # <<>>) =>
    /\ undoStack' = Front(undoStack)
    /\ treeToast' \in {<<"Undone">> \o undoStack[Len(undoStack)].label,
                      <<"Undo failed">>}

\* C15: the undo stack never holds more than 50 actions; a push that would
\* exceed 50 discards the oldest action and the 50 most recent remain in
\* push order, so successive undo() calls execute the actions in reverse
\* order of the operations that pushed them.
C15_BoundedStack ==
  /\ [](Len(undoStack) <= UndoCap)
  /\ [][C15_StackStep /\ C15_UndoTakesLast]_vars

\* a create has pushed onto a stack of 50 actions: the oldest one is gone
\* and the create's action is the last
C15_Witness ==
  /\ treeTrace.op = "createFile"
  /\ treeTrace.ok
  /\ Len(treeTrace.stack) = UndoCap
  /\ Len(undoStack) = UndoCap
  /\ Front(undoStack) = Tail(treeTrace.stack)
  /\ undoStack[UndoCap].kind = "remove"

C36_ActiveIsOpen ==
  /\ activeId \in TabIds(tabs)
  /\ ~tabFault

(***************************************************************************)
(* Properties of the store, checked under SpecStore and SpecSession        *)
(***************************************************************************)

\* the calls that write to the store
C22_StoreWrite ==
  \/ saveTimerFires
  \/ ClearRecentFilesCall
  \/ \E q \in Listed(loadRecentFiles) \cup Unlisted(loadRecentFiles) :
       AddRecentFileCall(q)
  \/ \E prefs \in PreferenceChoices : SavePreferencesCall(prefs)

\* a write returns normally and leaves the session alone; while setItem
\* throws, the three items keep what they held
C22_WriteStep ==
  /\ C22_StoreWrite => (UNCHANGED <<tabs, activeId, nextId>> /\ ~tabFault')
  /\ setItemThrows => UNCHANGED <<lsTabs, lsRecent, lsPrefs>>

\* an item that is absent or cannot be parsed loads as the default
C22_LoadDefaults ==
  /\ lsTabs.kind # "json" => (loadTabs.tabs = <<>> /\ loadTabs.activeId = NullId)
  /\ lsRecent.kind # "json" => loadRecentFiles = <<>>
  /\ lsPrefs.kind # "json" => loadPreferences = DEFAULT_PREFERENCES

\* C22: persistence failures are swallowed.  When the write of the store
\* throws, saveTabs, addRecentFile, clearRecentFiles and savePreferences
\* return normally, the value stored before is unchanged and the session in
\* memory is unchanged; when a stored value is absent or unparsable, load
\* returns the default without throwing.
C22_FailuresSwallowed == []C22_LoadDefaults /\ [][C22_WriteStep]_vars

\* the auto-save timer has fired over a storage that throws: the item is the
\* unparsable one it was, and the edited session goes on in memory
C22_Witness ==
  /\ setItemThrows
  /\ tabTrace[1] = "saveTimerFires"
  /\ lsTabs.kind = "garbage"
  /\ ~tabFault
  /\ \E i \in DOMAIN tabs : tabs[i].code = EditedCode

\* the session a startup builds from what the store holds
C23_RestartStep ==
  Restart =>
    LET saved == loadTabs
    IN IF Len(saved.tabs) > 0
       THEN /\ tabs' = saved.tabs
            /\ activeId' = IF saved.activeId \in TabIds(saved.tabs)
                           THEN saved.activeId
                           ELSE saved.tabs[1].id
       ELSE /\ Len(tabs') = 1
            /\ tabs'[1].code = Template
            /\ tabs'[1].filePath = NullPath
            /\ tabs'[1].title = Untitled
            /\ activeId' = tabs'[1].id

\* a startup after the timer has written the session: documents and active
\* id are the ones held before it
C23_RoundTripStep ==
  (Restart /\ ~saveTimer /\ ~tabFault) =>
    (tabs' = tabs /\ activeId' = activeId)

\* C23: session restore round trip.  Once the debounced write has persisted
\* a session, the next startup restores the same ordered documents (ids,
\* titles, paths, contents) and the same active id; if the persisted active
\* id is absent or matches no persisted document the first document becomes
\* active; if nothing or an empty list is persisted, exactly one default
\* document is created and active.
C23_SessionRestored == [][C23_RestartStep /\ C23_RoundTripStep]_vars

\* a restart has brought back two documents, an edited one among them, with
\* the second one active
C23_Witness ==
  /\ tabTrace[1] = "Restart"
  /\ session = 2
  /\ Len(tabs) = 2
  /\ activeId = tabs[2].id
  /\ tabs[1].id[1] = 1
  /\ \E i \in DOMAIN tabs : tabs[i].code = EditedCode
  /\ lsTabs = ItemJson([tabs |-> tabs, activeId |-> activeId])

\* a change of the documents or of the active id leaves the timer pending,
\* and nothing is written but by the timer, which writes the documents and
\* the active id held when it fires
C29_WriteStep ==
  /\ (tabs' # tabs \/ activeId' # activeId) => saveTimer'
  /\ lsTabs' # lsTabs =>
       /\ saveTimer /\ ~saveTimer'
       /\ lsTabs' = ItemJson([tabs |-> tabs, activeId |-> activeId])
       /\ UNCHANGED <<tabs, activeId>>

\* with no timer pending, the store holds the session in memory
C29_Settled ==
  (~saveTimer /\ ~tabFault) =>
    lsTabs = ItemJson([tabs |-> tabs, activeId |-> activeId])

\* C29: tab-state persistence is coalesced.  Every change of the document
\* list or of the active id restarts the 500 ms timer; no write happens while
\* changes keep arriving; each write stores the complete state current when
\* the timer fires; after 500 ms without change the persisted state equals
\* the state in memory.
C29_Coalesced == []C29_Settled /\ [][C29_WriteStep]_vars

\* the timer has written a session of two documents after edits
C29_Witness ==
  /\ tabTrace[1] = "saveTimerFires"
  /\ ~saveTimer
  /\ Len(tabs) = 2
  /\ \E i \in DOMAIN tabs : tabs[i].code = EditedCode
  /\ lsTabs = ItemJson([tabs |-> tabs, activeId |-> activeId])

(***************************************************************************)
(* Properties of the render scheduler, checked under SpecRender and        *)
(* SpecDebounce                                                            *)
(***************************************************************************)

\* a markup of whitespace only, the empty one included
IsBlank(c) == \A i \in DOMAIN c : c[i] \in Whitespace

\* C24: a render completion, success or failure, whose generation is stale
\* mutates nothing: the graphic, the error, what onError reported and the
\* renderer elements in the document are left as they were.
C24_StaleSilent ==
  [][\A r \in inflight :
       ((RenderResolves(r) \/ \E err \in RenderThrows : RenderRejects(r, err))
          /\ r.id # renderIdRef) =>
         UNCHANGED <<svgHtml, errorMsg, appError, domArtifacts>>]_vars

\* C25: error and graphic are updated together, so the stored graphic, which
\* getSvg returns, and an error are never both present.
C25_NeverBoth == ~(svgHtml # NoSvg /\ ~errorMsg.null)

\* renderDiagram on a blank markup calls no renderer and clears graphic and
\* error
C26_BlankStep ==
  (TimerFires /\ IsBlank(code)) =>
    /\ inflight' = inflight
    /\ svgHtml' = NoSvg
    /\ errorMsg' = NullError
    /\ appError' = NullError

\* while the generation of a blank markup is the current one, graphic and
\* error stay cleared, whatever settles meanwhile
C26_BlankRests ==
  (renderIdRef > 0 /\ renderLog[renderIdRef].kind = "empty") =>
    /\ svgHtml = NoSvg
    /\ errorMsg = NullError
    /\ appError = NullError
    /\ \A r \in inflight : r.id # renderIdRef

\* C26: for empty or whitespace-only markup the renderer is never invoked,
\* and processing it leaves the graphic empty and the error null, with
\* onError(null) reported, whatever graphic and error were there before.
C26_BlankShortCircuit == []C26_BlankRests /\ [][C26_BlankStep]_vars

\* a blank markup has been processed after a render that had committed its
\* graphic
C26_Witness ==
  /\ renderIdRef >= 2
  /\ renderLog[renderIdRef].kind = "empty"
  /\ renderLog[renderIdRef - 1].kind = "ok"
  /\ renderLog[renderIdRef - 1].at < renderLog[renderIdRef].at
  /\ IsBlank(code)
  /\ svgHtml = NoSvg

\* C27: when the markup becomes empty or whitespace-only, graphic and error
\* are cleared at that change, without waiting for the 300 ms timer.
C27_ClearedAtChange ==
  [][\A c \in RenderMarkups :
       (ChangeCode(c) /\ IsBlank(c)) =>
         (svgHtml' = NoSvg /\ errorMsg' = NullError)]_vars

\* a change of markup or theme restarts the timer and dispatches nothing
C28_ChangeStep ==
  (code' # code \/ theme' # theme) =>
    /\ timerArmed'
    /\ renderIdRef' = renderIdRef
    /\ inflight' = inflight

\* a dispatch is made by the pending timer, which it uses up, and with the
\* markup and theme of that moment
C28_DispatchStep ==
  renderIdRef' # renderIdRef =>
    /\ timerArmed /\ ~timerArmed'
    /\ renderIdRef' = renderIdRef + 1
    /\ inflight' = IF IsBlank(code)
                   THEN inflight
                   ELSE inflight \cup
                          {[id |-> renderIdRef + 1,
                            src |-> preprocessMermaid(Trim(code)),
                            theme |-> theme]}

\* a pending timer goes away by its dispatch or by the teardown only
C28_DisarmStep ==
  (timerArmed /\ ~timerArmed') =>
    (renderIdRef' = renderIdRef + 1 \/ (mounted /\ ~mounted'))

\* after the teardown no timer is pending and nothing is dispatched
C28_TornDown == ~mounted => ~timerArmed
C28_TornDownStep == ~mounted => (renderIdRef' = renderIdRef /\ ~mounted')

\* C28: render debounce.  Every change of markup or theme cancels the
\* pending timer and starts a new one, so a burst of changes causes exactly
\* one dispatch, made with the last markup and theme of the burst; once
\* changes stop the last state is eventually dispatched; a pending timer is
\* cancelled on teardown and never fires afterwards.
C28_Debounce ==
  /\ [][C28_ChangeStep /\ C28_DispatchStep /\ C28_DisarmStep
         /\ C28_TornDownStep]_vars
  /\ []C28_TornDown
  /\ timerArmed ~> ~timerArmed

\* two dispatches, the second made with the markup and theme now held, which
\* are not those of the first; no timer is pending
C28_Witness ==
  /\ mounted
  /\ ~timerArmed
  /\ renderIdRef = 2
  /\ \E r1, r2 \in inflight :
       /\ r1.id = 1 /\ r2.id = 2
       /\ r2.src = preprocessMermaid(Trim(code))
       /\ r2.theme = theme
       /\ r1.src # r2.src
       /\ r1.theme # r2.theme

(***************************************************************************)
(* Properties of the file tree, checked under SpecTree and SpecLoad        *)
(***************************************************************************)

\* what undo() does in one step
C14_UndoStep ==
  undo =>
    /\ Len(undoStack') <= Len(undoStack)
    /\ IF undoStack = <<>>
       THEN /\ treeToast' = <<"Nothing to undo">>
            /\ UNCHANGED <<fs, tree, undoStack, rootPath, expandedDirs>>
       ELSE LET action == undoStack[Len(undoStack)]
            IN /\ undoStack' = Front(undoStack)
               /\ IF CanExecute(platform, fs, action)
                  THEN /\ fs' = Executed(platform, fs, action)
                       /\ treeToast' = <<"Undone">> \o action.label
                  ELSE /\ fs' = fs
                       /\ treeToast' = <<"Undo failed">>

C16_Readable(fsx, loc) ==
  /\ loc \in DOMAIN fsx
  /\ ~fsx[loc].isDirectory
  /\ fsx[loc].content # NotText

\* a deleteEntry that removed its target pushes one action when the text of
\* the target could be read, and none otherwise
C16_DeleteStep ==
  \A q \in TreePaths(tree) :
    (deleteEntry(q) /\ fs' # fs) =>
      IF C16_Readable(fs, Locate(platform, q))
      THEN /\ Len(undoStack') = Len(undoStack) + 1
           /\ Front(undoStack') = undoStack
      ELSE undoStack' = undoStack

\* undo straight after the deletion of a readable file: the file is back at
\* its path with the content it had
C16_DeleteUndone ==
  treeTrace.op = "deleteEntry;undo" =>
    LET loc == Locate(platform, treeTrace.path)
    IN /\ loc \in DOMAIN fs
       /\ fs[loc] = treeTrace.before[loc]

\* C16: deleteEntry(path) pushes an undo action if and only if the text of
\* the target could be read before the removal (a single readable file, one
\* with empty content included); deleting such a file and then calling
\* undo() recreates the file at the same path with exactly the content it
\* had; deleting a directory or an unreadable target pushes no undo action.
C16_DeleteUndo == []C16_DeleteUndone /\ [][C16_DeleteStep]_vars

\* an empty file has been deleted and brought back by undo
C16_Witness ==
  /\ treeTrace.op = "deleteEntry;undo"
  /\ treeTrace.before[Locate(platform, treeTrace.path)].content = ""
  /\ Locate(platform, treeTrace.path) \in DOMAIN fs
  /\ fs[Locate(platform, treeTrace.path)].content = ""
  /\ undoStack = <<>>

\* C17: renameEntry(oldPath, newName) renames in place: for every entry
\* path the tree listing produces, under roots written with / as well as
\* with \, the new path returned has the parent directory of the entry and
\* newName as its last segment.
C17_RenameInPlace ==
  (treeTrace.op = "renameEntry" /\ treeTrace.ok) =>
    LET from == Locate(platform, treeTrace.path)
        to == Locate(platform, treeTrace.ret)
    IN /\ to # <<>>
       /\ Front(to) = Front(from)
       /\ to[Len(to)] = FileB

\* C18: rename round trip.  A successful renameEntry(oldPath, newName)
\* pushes exactly one undo action, and undo() straight after it renames the
\* entry back so that the filesystem is as it was before the rename, also
\* when an entry named newName existed in the directory.
C18_RenameUndoRestores ==
  /\ (treeTrace.op = "renameEntry" /\ treeTrace.ok) =>
       (Len(undoStack) = Len(treeTrace.stack) + 1
          /\ Front(undoStack) = treeTrace.stack)
  /\ treeTrace.op = "renameEntry;undo" => fs = treeTrace.before

\* at most one root load is in flight, and the guard is set exactly then
C19_OneInFlight ==
  /\ Len(loadCalls) <= 1
  /\ loadingRef <=> loadCalls # <<>>

\* a loadRoot call made while one is in flight lists nothing and writes
\* nothing; one made while none is in flight is accepted
C19_CallStep ==
  \A d \in WorkRoots :
    loadRoot(d) =>
      IF loadingRef
      THEN UNCHANGED <<fs, tree, rootPath, expandedDirs, loadingRef, loadCalls,
                       undoStack, treeToast>>
      ELSE loadCalls' = <<d>> /\ loadingRef'

\* the call in flight finishes, its listing resolved or rejected: the guard
\* is released, and only a resolved listing writes the root
C19_FinishStep ==
  /\ loadRootResolves =>
       (~loadingRef' /\ loadCalls' = <<>> /\ rootPath' = Head(loadCalls)
          /\ tree' = readDirectory(platform, fs, Head(loadCalls))
          /\ expandedDirs' = {})
  /\ loadRootRejects =>
       (~loadingRef' /\ loadCalls' = <<>> /\ UNCHANGED <<rootPath, expandedDirs>>)

\* C19: loadRoot single-flight.  While one loadRoot call is in flight every
\* further loadRoot call returns without listing the filesystem and without
\* writing any state, so two overlapping root loads never interleave their
\* writes to tree, rootPath and the expanded set; the guard is released
\* when the call in flight finishes, whether it succeeded or failed, so a
\* later loadRoot is accepted again.
C19_SingleFlight ==
  /\ []C19_OneInFlight
  /\ [][C19_CallStep /\ C19_FinishStep]_vars

\* with a root loaded, a second load has been accepted and a third call,
\* made while the second is in flight, has been dropped
C19_Witness ==
  /\ treeTrace.op = "loadRoot"
  /\ ~treeTrace.ok
  /\ loadingRef
  /\ Len(loadCalls) = 1
  /\ rootPath # NullPath
  /\ tree # <<>>

\* a write that saveFile or saveFileAs awaited has rejected: no document
\* changes its path, title or text, and the recent files are as they were
C20_SaveFails ==
  \A k \in DOMAIN tabOps :
    writeRejects(k) =>
      /\ tabTrace'[3] = "Failed to save file"
      /\ UNCHANGED <<tabs, activeId, nextId, lsRecent, lsTabs>>

\* a read that openFile or openRecentFile awaited has rejected: no document
\* is made or altered, and the recent files are as they were
C20_OpenFails ==
  \A k \in DOMAIN tabOps :
    readRejects(k) =>
      UNCHANGED <<tabs, activeId, nextId, lsRecent, lsTabs>>

\* the notifications of a tree operation that failed
C20_TreeFailures ==
  {<<"Failed to create file">>, <<"Failed to create folder">>,
   <<"Failed to delete">>, <<"Failed to rename">>}

\* a tree operation that failed leaves the tree and the undo stack as they
\* were
C20_TreeFails ==
  ((\/ createFile(rootPath, FileA)
    \/ createFolder(rootPath, FolderSub)
    \/ \E q \in TreePaths(tree) : deleteEntry(q) \/ renameEntry(q, FileB))
   /\ treeToast' \in C20_TreeFailures) =>
     UNCHANGED <<tree, undoStack, rootPath, expandedDirs, fs>>

\* C20: a failing document or tree I/O operation mutates no in-memory
\* state: a failed saveFile or saveFileAs leaves the path and title of the
\* document unchanged and adds no recent file; a failed read in openFile or
\* openRecentFile makes or alters no document and adds no recent file; a
\* failed renameEntry, createFile, createFolder or deleteEntry leaves the
\* tree unchanged and pushes no undo action.
C20_FailuresMutateNothing ==
  [][C20_SaveFails /\ C20_OpenFails /\ C20_TreeFails]_vars

\* a rename has failed on a tree that still lists the entry, after a save
\* under a new name has failed on a document without a path
C20_Witness ==
  /\ treeToast = <<"Failed to rename">>
  /\ treeTrace.op = "renameEntry"
  /\ tree # <<>>
  /\ tabTrace[1] = "writeRejects"
  /\ tabTrace[3] = "Failed to save file"
  /\ \A i \in DOMAIN tabs : tabs[i].filePath = NullPath
  /\ lsRecent = ItemAbsent(<<>>)

\* every entry the tree holds, at any depth
RECURSIVE AllEntries(_)
AllEntries(entries) ==
  UNION {{entries[i]} \cup AllEntries(entries[i].children.items) :
           i \in DOMAIN entries}

\* the directory of that path in the tree
DirAt(entries, dirPath) ==
  CHOOSE e \in AllEntries(entries) : e.path = dirPath /\ e.isDirectory

\* C31: toggleDir(dirPath) on a collapsed directory adds it to the expanded
\* set and lists its children only if none are cached; on an expanded
\* directory it only removes it from the expanded set and keeps the cached
\* children, so that toggling twice restores the expanded set; re-expanding
\* a directory whose children are cached, an empty list included, performs
\* no listing and leaves the tree as it is.
C31_ToggleDir ==
  [][\A q \in DirPaths(tree) :
       toggleDir(q) =>
         IF q \in expandedDirs
         THEN /\ expandedDirs' = expandedDirs \ {q}
              /\ tree' = tree
              /\ treeTrace'.path = NullPath
         ELSE /\ expandedDirs' = expandedDirs \cup {q}
              /\ IF DirAt(tree, q).children.loaded
                 THEN /\ tree' = tree
                      /\ treeTrace'.path = NullPath
                 ELSE /\ treeTrace'.path = q
                      /\ CanReadDir(platform, fs, q) =>
                           DirAt(tree', q).children =
                             Loaded(readDirectory(platform, fs, q))]_vars

\* a folder whose cached children went away underneath has been expanded
\* again: no listing was made and the tree still shows the cached children
C31_Witness ==
  /\ treeTrace.op = "toggleDir"
  /\ treeTrace.dir \in expandedDirs
  /\ treeTrace.path = NullPath
  /\ DirAt(tree, treeTrace.dir).children.loaded
  /\ DirAt(tree, treeTrace.dir).children.items # <<>>
  /\ ~CanReadDir(platform, fs, treeTrace.dir)

\* a folder whose cached list of children is empty has been expanded again
C31_WitnessEmpty ==
  /\ treeTrace.op = "toggleDir"
  /\ treeTrace.dir \in expandedDirs
  /\ treeTrace.path = NullPath
  /\ DirAt(tree, treeTrace.dir).children = Loaded(<<>>)

\* entries without what they hold below
Shallow(entries) ==
  [i \in DOMAIN entries |-> [entries[i] EXCEPT !.children = Unloaded]]

\* C32: refresh() leaves the expanded set unchanged and replaces the tree by
\* a fresh listing of the root in which every expanded directory, at any
\* depth, is freshly listed; an expanded directory whose listing fails gets
\* empty children while the others are refreshed; with no root, or when the
\* listing of the root fails, refresh changes nothing.
C32_Refresh ==
  [][refresh =>
       /\ UNCHANGED <<expandedDirs, rootPath, fs, undoStack>>
       /\ IF rootPath = NullPath \/ ~CanReadDir(platform, fs, rootPath)
          THEN tree' = tree
          ELSE /\ Shallow(tree') = readDirectory(platform, fs, rootPath)
               /\ \A e \in AllEntries(tree') :
                    IF e.isDirectory /\ e.path \in expandedDirs
                    THEN /\ e.children.loaded
                         /\ Shallow(e.children.items) =
                              IF CanReadDir(platform, fs, e.path)
                              THEN readDirectory(platform, fs, e.path)
                              ELSE <<>>
                    ELSE e.children = Unloaded]_vars

\* a refresh has listed the root, an expanded folder and an expanded folder
\* of that folder with what it holds
C32_Witness ==
  /\ treeTrace.op = "refresh"
  /\ rootPath # NullPath
  /\ \E i \in DOMAIN tree :
       /\ tree[i].path \in expandedDirs
       /\ \E j \in DOMAIN tree[i].children.items :
            LET e == tree[i].children.items[j]
            IN /\ e.isDirectory
               /\ e.path \in expandedDirs
               /\ e.children.loaded
               /\ e.children.items # <<>>

\* a refresh has given empty children to an expanded folder it could not list
C32_WitnessFailed ==
  /\ treeTrace.op = "refresh"
  /\ \E e \in AllEntries(tree) :
       /\ e.isDirectory
       /\ e.path \in expandedDirs
       /\ ~CanReadDir(platform, fs, e.path)
       /\ e.children = Loaded(<<>>)
       /\ Len(tree) > 1

\* C33: createFile and createFolder fail softly when the name exists:
\* nothing is written, the existing entry is unchanged, no undo action is
\* pushed, a notification is shown and createFile returns null; also when
\* two create calls for the same name overlap at their suspension points.
C33_CreateFailsSoftly ==
  [][/\ \A k \in DOMAIN treeOps :
          ( /\ createFileChecks(k) \/ createFileWrites(k)
            /\ Locate(platform, JoinPath(treeOps[k].dir, treeOps[k].name))
                 \in DOMAIN fs )
          => /\ fs' = fs
             /\ undoStack' = undoStack
             /\ treeToast' # <<>>
             /\ treeTrace' = Quiet("createFile", FALSE)
     /\ ( /\ createFolder(rootPath, FolderSub)
          /\ Locate(platform, JoinPath(rootPath, FolderSub)) \in DOMAIN fs )
        => /\ fs' = fs
           /\ undoStack' = undoStack
           /\ treeToast' # <<>>
           /\ treeTrace' = Quiet("createFolder", FALSE)]_vars

\* no call of the file tree is suspended
TreeAtRest == treeOps = <<>> /\ loadCalls = <<>>

\* C37: once no file-tree operation is in flight, the top-level entries of
\* the tree are a listing of the current rootPath; also when a refresh or a
\* toggleDir started under the previous root completes after a loadRoot of
\* a different root wrote its result.
C37_TreeListsRoot ==
  (TreeAtRest /\ rootPath # NullPath)
    => Shallow(tree) = readDirectory(platform, fs, rootPath)

\* C38: once no file-tree operation is in flight, every directory that is in
\* the expanded set and present in the tree has a populated children list;
\* under overlapping toggleDir calls on two directories, a toggleDir that
\* overlaps a refresh, and a toggleDir whose child listing fails.
C38_ExpandedPopulated ==
  TreeAtRest =>
    \A e \in AllEntries(tree) :
      (e.isDirectory /\ e.path \in expandedDirs) => e.children.loaded

\* the step leaves the stack with one action more, on top of those it held
PushedOne ==
  /\ Len(undoStack') = Len(undoStack) + 1
  /\ SubSeq(undoStack', 1, Len(undoStack)) = undoStack

\* C35: each successful createFile, createFolder and renameEntry, and each
\* successful deleteEntry of a readable file, pushes exactly one undo action,
\* so that an immediate undo() reverses that same operation and not an
\* earlier one.
C35_OnePushEach ==
  [][/\ (createFile(rootPath, FileA) /\ treeTrace'.ok)
          => PushedOne
     /\ (createFolder(rootPath, FolderSub) /\ treeTrace'.ok)
          => PushedOne
     /\ \A q \in TreePaths(tree) :
          (renameEntry(q, FileB) /\ treeTrace'.ok)
            => PushedOne
     /\ \A q \in TreePaths(tree) :
          (deleteEntry(q) /\ treeTrace'.ok
             /\ CanReadText(fs, Locate(platform, q)))
            => PushedOne]_vars

\* C39: the refresh performed by an undo action uses the root and the
\* expanded set current at the time of undo(), not those captured when the
\* original operation ran: after an undo that succeeded the tree is the
\* listing of the current root with the directories expanded now.
C39_UndoRefreshesCurrent ==
  [][(undo /\ undoStack # <<>>
        /\ CanExecute(platform, fs, undoStack[Len(undoStack)]))
       => tree' = Refreshed(platform, fs', rootPath, expandedDirs, tree)]_vars

\* C21: a loadRoot whose listing fails aborts without mutating state: the
\* tree, rootPath and the expanded set are as they were, and the failure is
\* shown as a notification.
C21_FailedLoadKeepsTree ==
  [][loadRootRejects =>
       /\ UNCHANGED <<tree, rootPath, expandedDirs>>
       /\ treeToast' # <<>>]_vars

(***************************************************************************)
(* Properties of the preprocessor, checked under SpecPre                   *)
(***************************************************************************)

\* C7: idempotence.  For every flow-diagram markup x,
\* preprocessMermaid(preprocessMermaid(x)) equals preprocessMermaid(x), also
\* where the match of one shape pattern overlaps or contains another's.
C7_Idempotent ==
  (ppStage = "twice" /\ ppSource.family # "nonflow") => ppTwice = ppOnce

\* C8: a node label already wrapped in a matching pair of double quotes is
\* left untouched, for every shape and whatever the quoted text holds: the
\* output equals the input.
C8_QuotedUntouched ==
  (ppStage # "input" /\ ppSource.family = "quoted") => ppOnce = ppSource.text

\* C9: the quoting trigger.  In a flow diagram a node label that is not
\* quoted and holds one of ( ) ' " & # ; is rewritten to the label wrapped
\* in double quotes, each embedded double quote replaced by &quot;, as for
\* the label say (hi) of "flowchart TD\nA(say (hi))\n".
C9_TriggerQuotes ==
  (ppStage # "input" /\ ppSource.family = "trigger") => ppOnce = ppSource.expect

\* the first line that is neither blank nor a %% comment, if any, does not
\* start with graph or flowchart, whatever the case of its letters
C10_NotFlow(text) ==
  LET lines == SplitLines(text)
      substantive == {i \in DOMAIN lines :
                        /\ Trim(lines[i]) # <<>>
                        /\ ~StartsWith(Trim(lines[i]), <<"%", "%">>)}
  IN \/ substantive = {}
     \/ LET first == CHOOSE i \in substantive : \A j \in substantive : i <= j
        IN \A k \in FlowKeywords : ~StartsWith(ToLower(Trim(lines[first])), k)

\* C10: non-interference.  For every markup whose first line that is neither
\* blank nor a %% comment does not start with graph or flowchart, and for
\* markup with no substantive line, preprocessMermaid(x) returns x.
C10_NonInterference ==
  (ppStage # "input" /\ C10_NotFlow(ppSource.text)) => ppOnce = ppSource.text

\* a diagram of another type, with a comment and a node-like line, has gone through
\* the preprocessor
C10_Witness ==
  /\ ppStage = "once"
  /\ ppSource.text =
       <<"%","%"," ","A","(",";",")","\n">>
         \o <<"g","i","t","G","r","a","p","h">> \o NewLine
         \o <<"A","[","x",";","y","]">>
  /\ C10_NotFlow(ppSource.text)
  /\ ppOnce = ppSource.text

\* C11: line-count preservation.  For every input x the number of lines of
\* preprocessMermaid(x), split at newlines, equals that of x, and line i of
\* the output is the rewrite of line i of the input: no line is inserted,
\* deleted or reordered.
C11_LinesPreserved ==
  ppStage # "input" =>
    LET given == SplitLines(ppSource.text)
        out == SplitLines(ppOnce)
    IN /\ Len(out) = Len(given)
       /\ \A i \in DOMAIN given :
            out[i] = IF isFlowchart(given) THEN preprocessLine(given[i])
                     ELSE given[i]

\* a flow diagram of four lines, a blank one in the middle, has had its
\* second and fourth line rewritten
C11_Witness ==
  /\ ppStage = "once"
  /\ ppSource.text = JoinLines(<<GraphHeader, <<"A","(",";",")">>, <<>>,
                                 <<"A","[","x",";","y","]","\r">> >>)
  /\ Len(SplitLines(ppOnce)) = 4
  /\ SplitLines(ppOnce)[2] = <<"A","(","\"",";","\"",")">>
  /\ SplitLines(ppOnce)[3] = <<>>
  /\ SplitLines(ppOnce)[4] # SplitLines(ppSource.text)[4]

\* C40: in auto-quote mode only blank lines, %% comments and the structural
\* statements subgraph, end, direction, click, class, classDef, style and
\* linkStyle, as whole keywords, are exempt: a structural statement comes out
\* as it went in, and a node line whose identifier merely begins with a
\* keyword (endpoint[a (b)], clickable[x;y], directions[p & q]) has its label
\* quoted as the label of any other identifier is.
C40_WholeKeywords ==
  (ppStage # "input" /\ ppSource.family \in {"prefix", "keyword"})
    => ppOnce = ppSource.expect

(***************************************************************************)
(* Properties of the viewport, checked under SpecView                      *)
(***************************************************************************)

\* C12: zoom boundedness.  In every reachable state of the viewport, after
\* any sequence of wheel events, zoomIn, zoomOut, resetView and fitToView
\* with any size of the graphic and of the container, a container smaller
\* than the 48 px margin included, zoom lies within [0.1, 5.0].
C12_ZoomBounded ==
  /\ ~FracLess(zoom, MIN_ZOOM)
  /\ ~FracLess(MAX_ZOOM, zoom)

\* a fit into a container smaller than the margin has set the least zoom
C12_Witness ==
  /\ viewTrace.op = "fitToView"
  /\ viewTrace.box.container[1] < FitMargin
  /\ viewTrace.box.size \in GraphicSizes
  /\ viewTrace.box.size[1] > 0
  /\ zoom = MIN_ZOOM
  /\ pan = <<0, 0>>

\* max(0.1, min((W - 48) / w, (H - 48) / h, 5)) for a graphic of natural
\* size (w, h) in a container of size (W, H)
C30_Fit(container, size) ==
  FracMax(<<1, 10>>,
          FracMin(FracMin(Frac(container[1] - 48, size[1]),
                          Frac(container[2] - 48, size[2])),
                  <<5, 1>>))

\* C30: fitToView with a graphic of natural size (w, h), both positive, in a
\* container of size (W, H) sets zoom to max(0.1, min((W-48)/w, (H-48)/h, 5)),
\* whatever the zoom was, and pan to (0, 0); with no graphic, or one of size
\* zero, zoom and pan are unchanged.
C30_FitToView ==
  [][\A container \in ContainerBoxes : \A size \in GraphicSizes \cup {NoGraphic} :
       fitToView(container, size) =>
         IF size = NoGraphic \/ size[1] = 0 \/ size[2] = 0
         THEN UNCHANGED <<zoom, pan>>
         ELSE zoom' = C30_Fit(container, size) /\ pan' = <<0, 0>>]_vars

\* the same for a fit made while no transition of the scale is running
C30_FitToViewAtRest ==
  [][\A container \in ContainerBoxes : \A size \in GraphicSizes \cup {NoGraphic} :
       (fitToView(container, size) /\ zoomShown = zoom) =>
         IF size = NoGraphic \/ size[1] = 0 \/ size[2] = 0
         THEN UNCHANGED <<zoom, pan>>
         ELSE zoom' = C30_Fit(container, size) /\ pan' = <<0, 0>>]_vars

====
